---------------------------- MODULE Spec2Model ----------------------------
(***************************************************************************)
(* A model of the path tracer: the numeric kernel (src/geo, num_traits),   *)
(* the shapes, the materials, the scene aggregate, the integrator, the     *)
(* parallel driver, the command line and the PNG writer (src/bin/main.rs). *)
(*                                                                         *)
(* Float values are modelled by rationals [n, d] in lowest terms with      *)
(* 0 < d <= Den, extended by the IEEE specials +inf = 1/0, -inf = -1/0 and *)
(* NaN = 0/0.  An operation is exact when its result is such a rational    *)
(* and is rounded to a multiple of 1/Den otherwise, as f32 rounds to 24    *)
(* bits; the square root is exact on squares of rationals.  The constants  *)
(* 1.0e-6 and 1.0e-4 are kept exact: the code only compares against them.  *)
(***************************************************************************)
EXTENDS Integers, Sequences, FiniteSets, TLC

VARIABLES
    scene_objects, \* Scene.objects, the ordered primitives
    ray0,          \* the ray handed to Scene::hit or to the outermost ray_color
    t_min0,        \* Scene::hit: the argument t_min
    t_max0,        \* Scene::hit: the argument t_max
    idx,           \* Scene::hit: the position of the loop in objects
    loop,          \* Scene::hit: the locals t_max and hit_struct of the loop
    hits,          \* Scene::hit: what each obj.hit of the loop returned so far
    limit0,        \* the limit handed to the outermost ray_color
    pc,            \* ray_color: "call", "ret", "done" or "panic"
    cur,           \* ray_color: the arguments ray and limit of the running call
    frames,        \* ray_color: the attenuation of every call awaiting its callee
    ret,           \* ray_color: the color the call that ended last returned
    scat,          \* ray_color: the last call of Material::scatter and its result
    queried,       \* ray_color: what scene.hit returned to the running call
    options,       \* render: the argument opt
    cam,           \* render: the argument camera
    task,          \* render: what the closure of each pixel (i, j) returned
    rows,          \* render: the row each closure of a j collected
    pixels,        \* render: the vector returned
    pixel,         \* a pixel closure: its i and j, and the open front_face
    local,         \* a pixel closure: its locals color and rng
    pass,          \* a pixel closure: the passes of its loop made so far
    samples,       \* a pixel closure: the draws and the result of each pass
    out,           \* a pixel closure: the color returned
    args,          \* from_args: the argument args
    parsed,        \* from_args: the RenderOptions returned
    wargs,         \* write_image: the arguments pixels and (nx, ny)
    wpc,           \* write_image: the statement to run next
    wfile,         \* write_image: what reached the file
    wfailed,       \* write_image: the I/O operations that failed
    wresult,       \* write_image: the Result returned
    call,          \* a library function called on its own: its name and arguments
    returned       \* what the functions called returned, in the order of the calls

(***************************************************************************)
(* Bounds of the model.                                                    *)
(***************************************************************************)
Den == 256
MaxObjects == 2
\* The passes of a rejection loop that are counted.
MaxPasses == 3

MaxLimit == 2
MaxArgs == 4

(***************************************************************************)
(* Float (src/num_traits.rs)                                               *)
(***************************************************************************)
Abs(i) == IF i < 0 THEN -i ELSE i

Sign(i) == IF i < 0 THEN -1 ELSE IF i > 0 THEN 1 ELSE 0

RECURSIVE GCD(_, _)
GCD(a, b) == IF b = 0 THEN a ELSE GCD(b, a % b)

\* n/d in lowest terms, for d # 0.
Reduced(n, d) ==
    LET g == GCD(Abs(n), Abs(d))
    IN  [n |-> Sign(d) * Sign(n) * (Abs(n) \div g), d |-> Abs(d) \div g]

\* The float of limited precision nearest to n/d, for d > Den.
Rounded(n, d) ==
    LET q == n \div d
        r == n % d
    IN  Reduced(q * Den + (2 * r * Den + d) \div (2 * d), Den)

\* The result n/d of an operation as a float; d = 0 gives the specials.
\* x, in lowest terms, as a float.
Nearest(x) == IF x.d <= Den THEN x ELSE Rounded(x.n, x.d)

\* The result n/d of an operation as a float; d = 0 gives the specials.
Float(n, d) ==
    IF d = 0 THEN [n |-> Sign(n), d |-> 0] ELSE Nearest(Reduced(n, d))

F(i) == [n |-> i, d |-> 1]

NAN == [n |-> 0, d |-> 0]

INFINITY == [n |-> 1, d |-> 0]

IsNaN(a) == a.d = 0 /\ a.n = 0

FNeg(a) == [n |-> -a.n, d |-> a.d]

FAdd(a, b) ==
    IF a.d = 0 /\ b.d = 0
    THEN IF a.n = b.n THEN a ELSE NAN
    ELSE Float(a.n * b.d + b.n * a.d, a.d * b.d)

FSub(a, b) == FAdd(a, FNeg(b))

FMul(a, b) == Float(a.n * b.n, a.d * b.d)

\* Recip::recip: 1.0 / self
FRecip(a) == Float(a.d, a.n)

\* a / b; a zero has no sign here and divides as +0.
FDiv(a, b) ==
    IF IsNaN(a) \/ IsNaN(b) \/ (a.d = 0 /\ b.d = 0) THEN NAN
    ELSE IF a.d = 0 THEN [n |-> IF b.n < 0 THEN -a.n ELSE a.n, d |-> 0]
    ELSE IF b.d = 0 THEN F(0)
    ELSE Float(a.n * b.d, a.d * b.n)

\* Comparisons are false as soon as one side is NaN.
FLt(a, b) ==
    /\ ~IsNaN(a)
    /\ ~IsNaN(b)
    /\ IF a.d = 0 \/ b.d = 0
       THEN IF a.d = 0 /\ b.d = 0 THEN a.n < b.n
            ELSE IF a.d = 0 THEN a.n < 0 ELSE b.n > 0
       ELSE LET qa == a.n \div a.d
                qb == b.n \div b.d
            IN  IF qa # qb THEN qa < qb
                ELSE (a.n % a.d) * b.d < (b.n % b.d) * a.d

FGt(a, b) == FLt(b, a)

FLe(a, b) == /\ ~IsNaN(a)
             /\ ~IsNaN(b)
             /\ ~FLt(b, a)

FGe(a, b) == FLe(b, a)

RECURSIVE ISqrtNewton(_, _)
ISqrtNewton(i, x) ==
    LET y == (x + i \div x) \div 2
    IN  IF y >= x THEN x ELSE ISqrtNewton(i, y)

\* The largest r with r * r <= i.
ISqrt(i) == IF i < 2 THEN i ELSE ISqrtNewton(i, i)

IsSquare(i) == ISqrt(i) * ISqrt(i) = i

\* Sqrt::sqrt
FSqrt(a) ==
    IF IsNaN(a) \/ a.n < 0 THEN NAN
    ELSE IF a.d = 0 THEN INFINITY
    ELSE IF IsSquare(a.n) /\ IsSquare(a.d) THEN Float(ISqrt(a.n), ISqrt(a.d))
    ELSE Float(ISqrt((a.n * Den * Den) \div a.d), Den)

\* EPSILON = 1.0e-6
EPSILON == [n |-> 1, d |-> 1000000]

(***************************************************************************)
(* Vec3 and Point3 (src/geo/vec3.rs, src/geo/point3.rs)                    *)
(***************************************************************************)
vec3(x, y, z) == [x |-> x, y |-> y, z |-> z]

point3(x, y, z) == [x |-> x, y |-> y, z |-> z]

\* A vector or a point with integer coordinates.
V(x, y, z) == vec3(F(x), F(y), F(z))

has_nans(v) == IsNaN(v.x) \/ IsNaN(v.y) \/ IsNaN(v.z)

dot(u, v) == FAdd(FAdd(FMul(u.x, v.x), FMul(u.y, v.y)), FMul(u.z, v.z))

\* The cross product of the other handedness.
cross_left_handed(u, v) ==
    vec3(FSub(FMul(u.z, v.y), FMul(u.y, v.z)),
         FSub(FMul(u.x, v.z), FMul(u.z, v.x)),
         FSub(FMul(u.y, v.x), FMul(u.x, v.y)))

cross(u, v) ==
    vec3(FSub(FMul(u.y, v.z), FMul(u.z, v.y)),
         FSub(FMul(u.z, v.x), FMul(u.x, v.z)),
         FSub(FMul(u.x, v.y), FMul(u.y, v.x)))

len_squared(v) == dot(v, v)

len(v) == FSqrt(len_squared(v))

\* Vec3 * scalar
mul(v, s) == vec3(FMul(v.x, s), FMul(v.y, s), FMul(v.z, s))

normalized(v) == mul(v, FRecip(len(v)))

neg(v) == vec3(FNeg(v.x), FNeg(v.y), FNeg(v.z))

add(u, v) == vec3(FAdd(u.x, v.x), FAdd(u.y, v.y), FAdd(u.z, v.z))

sub(u, v) == vec3(FSub(u.x, v.x), FSub(u.y, v.y), FSub(u.z, v.z))

\* Point3 + Vec3
point_add(p, v) == point3(FAdd(p.x, v.x), FAdd(p.y, v.y), FAdd(p.z, v.z))

\* Point3 - Point3
point_sub(p, q) == vec3(FSub(p.x, q.x), FSub(p.y, q.y), FSub(p.z, q.z))

(***************************************************************************)
(* Ray (src/geo/ray.rs)                                                    *)
(***************************************************************************)
Ray_new(o, d) == [o |-> o, d |-> d]

eval(ray, t) == point_add(ray.o, mul(ray.d, t))

(***************************************************************************)
(* Option<T>: None is the empty sequence, Some(x) the sequence <<x>>.      *)
(***************************************************************************)
None == << >>

Some(x) == << x >>

(***************************************************************************)
(* Materials (src/material/*.rs).  A material is a record with the fields  *)
(* of all four variants; kind says which variant it is.  scatter returns   *)
(* the attenuation it wrote through its out-parameter, the Option<Ray>,    *)
(* whether it panicked on an assertion instead of returning, and whether   *)
(* it drew from the generator of the thread.                               *)
(***************************************************************************)
Lambertian(albedo) ==
    [kind |-> "Lambertian", albedo |-> albedo, roughness |-> F(0),
     refraction_index |-> F(1)]

Metal(albedo, roughness) ==
    [kind |-> "Metal", albedo |-> albedo, roughness |-> roughness,
     refraction_index |-> F(1)]

Dielectric(refraction_index) ==
    [kind |-> "Dielectric", albedo |-> V(1, 1, 1), roughness |-> F(0),
     refraction_index |-> refraction_index]

NullMaterial ==
    [kind |-> "Null", albedo |-> V(0, 0, 0), roughness |-> F(0),
     refraction_index |-> F(1)]

\* The values rng.gen::<f32>() returns in the model, all in [0, 1).
Xi == {F(0), Float(1, 2)}

\* One candidate of the rejection loop of random_in_unit_sphere.
random_candidate(x1, x2, x3) == add(mul(vec3(x1, x2, x3), F(2)), V(-1, -1, -1))

\* The test of the rejection loop with the cube taken for the ball.
random_accept_cube(v) == FLe(len_squared(v), F(3))

\* The test that ends the rejection loop.
random_accept(v) == FLe(len_squared(v), F(1))

\* The vectors random_in_unit_sphere can return.
random_in_unit_sphere ==
    {v \in {random_candidate(x1, x2, x3) : x1 \in Xi, x2 \in Xi, x3 \in Xi} :
        random_accept(v)}

reflect(v, n) == sub(v, mul(mul(n, dot(v, n)), F(2)))

NullMaterial_scatter(self, ray, hit) ==
    [attenuation |-> V(0, 0, 0),
     scattered |-> Some(Ray_new(V(0, 0, 0), V(0, 0, 0))),
     panic |-> FALSE, drew |-> FALSE]

\* Lambertian_scatter with a degenerate direction taken for an absorption.
Lambertian_scatter_degenerate(self, ray, hit, rnd) ==
    LET n == normalized(hit.n)
        d == add(n, rnd)
    IN  [attenuation |-> self.albedo,
         scattered |-> IF d = V(0, 0, 0) THEN None ELSE Some(Ray_new(hit.p, d)),
         panic |-> FALSE, drew |-> TRUE]

\* rnd is the vector random_in_unit_sphere() returned.
Lambertian_scatter(self, ray, hit, rnd) ==
    LET n == normalized(hit.n)
        d == add(n, rnd)
    IN  [attenuation |-> self.albedo,
         scattered |-> Some(Ray_new(hit.p, d)),
         panic |-> FALSE, drew |-> TRUE]

\* Metal_scatter with the test made on the perturbed direction.
Metal_scatter_perturbed(self, ray, hit, rnd) ==
    LET reflected == reflect(normalized(ray.d), hit.n)
        scattered == Ray_new(hit.p, add(reflected, mul(rnd, self.roughness)))
    IN  [attenuation |-> self.albedo,
         scattered |-> IF FGt(dot(scattered.d, hit.n), F(0))
                       THEN Some(scattered) ELSE None,
         panic |-> FALSE, drew |-> TRUE]

Metal_scatter(self, ray, hit, rnd) ==
    LET reflected == reflect(normalized(ray.d), hit.n)
    IN  [attenuation |-> self.albedo,
         scattered |->
             IF FGt(dot(reflected, hit.n), F(0))
             THEN Some(Ray_new(hit.p, add(reflected, mul(rnd, self.roughness))))
             ELSE None,
         panic |-> FALSE, drew |-> TRUE]

\* f32::min and f32::max return the other operand when one is NaN.
FMin(a, b) == IF IsNaN(a) THEN b ELSE IF IsNaN(b) THEN a
              ELSE IF FLt(b, a) THEN b ELSE a

FMax(a, b) == IF IsNaN(a) THEN b ELSE IF IsNaN(b) THEN a
              ELSE IF FGt(b, a) THEN b ELSE a

\* x.powf(5.0)
powf5(x) == FMul(FMul(FMul(x, x), FMul(x, x)), x)

\* The two assertions that open schlick.
schlick_panics(cosine, refraction_index) ==
    ~FGe(cosine, F(-1)) \/ ~FLe(cosine, F(1))

\* schlick with r0 left unsquared.
schlick_unsquared(cosine, refraction_index) ==
    LET r0 == FDiv(FSub(F(1), refraction_index), FAdd(F(1), refraction_index))
    IN  FAdd(r0, FMul(FSub(F(1), r0), powf5(FSub(F(1), cosine))))

schlick(cosine, refraction_index) ==
    LET q == FDiv(FSub(F(1), refraction_index), FAdd(F(1), refraction_index))
        r0 == FMul(q, q)
    IN  FAdd(r0, FMul(FSub(F(1), r0), powf5(FSub(F(1), cosine))))

\* refract from its r_out_parallel on: the vector v it returns, and whether
\* one of its assertions panicked instead.
refract_out(uv, n, cos_theta, r_out_parallel) ==
    LET r_out_perp ==
            mul(n, FNeg(FSqrt(FSub(F(1), FMin(len_squared(r_out_parallel), F(1))))))
    IN  [v |-> add(r_out_parallel, r_out_perp),
         panic |-> \/ has_nans(uv)
                   \/ has_nans(n)
                   \/ ~(FGe(cos_theta, F(-1)) /\ FLe(cos_theta, F(1)))
                   \/ has_nans(r_out_parallel)
                   \/ has_nans(r_out_perp)]

refract(uv, n, etai_over_etat) ==
    LET cos_theta == FNeg(dot(uv, n))
    IN  refract_out(uv, n, cos_theta,
                    mul(add(uv, mul(n, cos_theta)), etai_over_etat))

\* xi is the value rng.gen::<Float>() returns when it is drawn, and drew says
\* whether it was.  panic says that an assertion of schlick or refract
\* failed on the way.
Dielectric_scatter_refracted(rec, refracted) ==
    [attenuation |-> V(1, 1, 1),
     scattered |-> IF refracted.panic THEN None
                   ELSE Some(Ray_new(rec.p, refracted.v)),
     panic |-> refracted.panic, drew |-> TRUE]

\* Dielectric::scatter from its cos_theta on.
Dielectric_scatter_cos(rec, xi, d, etai_over_etat, n, cos_theta) ==
    LET sin_theta == FSqrt(FSub(F(1), FMul(cos_theta, cos_theta)))
    IN  IF FGt(FMul(etai_over_etat, sin_theta), F(1))
        THEN \* total internal reflection
             [attenuation |-> V(1, 1, 1),
              scattered |-> Some(Ray_new(rec.p, reflect(d, n))),
              panic |-> FALSE, drew |-> FALSE]
        ELSE IF schlick_panics(cos_theta, etai_over_etat)
        THEN [attenuation |-> V(1, 1, 1), scattered |-> None,
              panic |-> TRUE, drew |-> FALSE]
        ELSE IF FLt(xi, schlick(cos_theta, etai_over_etat))
        THEN [attenuation |-> V(1, 1, 1),
              scattered |-> Some(Ray_new(rec.p, reflect(d, n))),
              panic |-> FALSE, drew |-> TRUE]
        ELSE Dielectric_scatter_refracted(rec, refract(d, n, etai_over_etat))

Dielectric_scatter(self, r_in, rec, xi) ==
    LET d == normalized(r_in.d)
        etai_over_etat == IF rec.front_face
                          THEN FRecip(self.refraction_index)
                          ELSE self.refraction_index
        n == IF rec.front_face THEN normalized(rec.n)
             ELSE neg(normalized(rec.n))
    IN  Dielectric_scatter_cos(rec, xi, d, etai_over_etat, n,
                               FMax(FMin(dot(neg(d), n), F(1)), F(-1)))

(***************************************************************************)
(* Hit records and shapes (src/hit.rs, src/shape/*.rs)                     *)
(***************************************************************************)
HitStruct_new(t, p, ray, outward_normal, material) ==
    LET front_face == FLt(dot(ray.d, outward_normal), F(0))
        n == IF front_face THEN outward_normal ELSE neg(outward_normal)
    IN  [t |-> t, p |-> p, n |-> n, front_face |-> front_face,
         material |-> material]

Sphere(center, radius, material) ==
    [kind |-> "Sphere", center |-> center, radius |-> radius,
     positions |-> << >>, material |-> material]

Triangle(v0, v1, v2, material) ==
    [kind |-> "Triangle", center |-> V(0, 0, 0), radius |-> F(0),
     positions |-> <<v0, v1, v2>>, material |-> material]

\* The record Sphere::hit builds for the root t.  Its struct literal names
\* t, p, n and material and gives front_face no value: front_face is
\* whatever the parameter ff says.
Sphere_record(self, ray, t, ff) ==
    LET p == eval(ray, t)
        n == mul(point_sub(p, self.center), FRecip(self.radius))
    IN  [t |-> t, p |-> p, n |-> n, front_face |-> ff,
         material |-> self.material]

\* Sphere::hit trying the farther root before the nearer one.
Sphere_hit_roots_far(self, ray, t_min, t_max, ff, t1, t2) ==
    IF FGt(t2, t_min) /\ FLt(t2, t_max)
    THEN Some(Sphere_record(self, ray, t2, ff))
    ELSE IF FGt(t1, t_min) /\ FLt(t1, t_max)
         THEN Some(Sphere_record(self, ray, t1, ff))
         ELSE None

\* Sphere::hit from its t of the nearer root on; t2 is the farther root.
Sphere_hit_roots(self, ray, t_min, t_max, ff, t1, t2) ==
    IF FGt(t1, t_min) /\ FLt(t1, t_max)
    THEN Some(Sphere_record(self, ray, t1, ff))
    ELSE IF FGt(t2, t_min) /\ FLt(t2, t_max)
         THEN Some(Sphere_record(self, ray, t2, ff))
         ELSE None

\* Sphere::hit from its discriminant on.
Sphere_hit_discriminant(self, ray, t_min, t_max, ff, a, b, discriminant) ==
    IF FGt(discriminant, F(0))
    THEN Sphere_hit_roots(self, ray, t_min, t_max, ff,
                          FDiv(FSub(FNeg(b), FSqrt(discriminant)), a),
                          FDiv(FAdd(FNeg(b), FSqrt(discriminant)), a))
    ELSE None

Sphere_hit(self, ray, t_min, t_max, ff) ==
    LET oc == point_sub(ray.o, self.center)
        a == len_squared(ray.d)
        b == dot(oc, ray.d)
        c == FSub(len_squared(oc), FMul(self.radius, self.radius))
    IN  Sphere_hit_discriminant(self, ray, t_min, t_max, ff, a, b,
                                FSub(FMul(b, b), FMul(a, c)))

\* moller_trumbore accepting the whole parallelogram of e1 and e2.
moller_trumbore_uvt_parallelogram(v0, e1, e2, u, v, t) ==
    IF FLt(v, F(0)) \/ FGt(v, F(1)) THEN None
    ELSE IF FGt(t, EPSILON)
         THEN Some([p |-> point_add(v0, add(mul(e1, u), mul(e2, v))),
                    t |-> t,
                    n |-> normalized(cross(e1, e2)),
                    uv |-> <<u, v>>])
         ELSE None

\* moller_trumbore from its u, v and t on.
moller_trumbore_uvt(v0, e1, e2, u, v, t) ==
    IF FLt(v, F(0)) \/ FGt(FAdd(u, v), F(1)) THEN None
    ELSE IF FGt(t, EPSILON)
         THEN Some([p |-> point_add(v0, add(mul(e1, u), mul(e2, v))),
                    t |-> t,
                    n |-> normalized(cross(e1, e2)),
                    uv |-> <<u, v>>])
         ELSE None

\* moller_trumbore from its u and q on.
moller_trumbore_q(ray, v0, e1, e2, f, u, q) ==
    IF FLt(u, F(0)) \/ FGt(u, F(1)) THEN None
    ELSE moller_trumbore_uvt(v0, e1, e2, u,
                             FMul(f, dot(ray.d, q)), FMul(f, dot(e2, q)))

\* moller_trumbore from its f and s on.
moller_trumbore_s(ray, v0, e1, e2, h, f, s) ==
    moller_trumbore_q(ray, v0, e1, e2, f, FMul(f, dot(s, h)), cross(s, e1))

\* moller_trumbore from its a on.
moller_trumbore_a(ray, v0, e1, e2, h, a) ==
    IF FGt(a, FNeg(EPSILON)) /\ FLt(a, EPSILON) THEN None
    ELSE moller_trumbore_s(ray, v0, e1, e2, h,
                           FDiv(F(1), a), point_sub(ray.o, v0))

moller_trumbore(ray, triangle) ==
    LET v0 == triangle.positions[1]
        e1 == point_sub(triangle.positions[2], v0)
        e2 == point_sub(triangle.positions[3], v0)
        h == cross(ray.d, e2)
    IN  moller_trumbore_a(ray, v0, e1, e2, h, dot(e1, h))

\* Triangle_hit_intersection with a window closed at t_max.
Triangle_hit_intersection_closed(self, ray, t_min, t_max, intersection) ==
    IF intersection # None
    THEN IF FGt(intersection[1].t, t_min) /\ FLe(intersection[1].t, t_max)
         THEN Some(HitStruct_new(intersection[1].t, intersection[1].p, ray,
                                 intersection[1].n, self.material))
         ELSE None
    ELSE None

\* Triangle::hit from its intersection on.
Triangle_hit_intersection(self, ray, t_min, t_max, intersection) ==
    IF intersection # None
    THEN IF FGt(intersection[1].t, t_min) /\ FLt(intersection[1].t, t_max)
         THEN Some(HitStruct_new(intersection[1].t, intersection[1].p, ray,
                                 intersection[1].n, self.material))
         ELSE None
    ELSE None

Triangle_hit(self, ray, t_min, t_max) ==
    Triangle_hit_intersection(self, ray, t_min, t_max,
                              moller_trumbore(ray, self))

\* obj.hit(ray, t_min, t_max) through the trait Hit.
Hit(obj, ray, t_min, t_max, ff) ==
    IF obj.kind = "Sphere" THEN Sphere_hit(obj, ray, t_min, t_max, ff)
    ELSE Triangle_hit(obj, ray, t_min, t_max)

(***************************************************************************)
(* The scene aggregate (src/bin/main.rs)                                   *)
(***************************************************************************)
\* Scene_hit_body without the tightening of the window.
Scene_hit_body_wide(st, hit) ==
    IF hit # None THEN [t_max |-> st.t_max, hit_struct |-> hit] ELSE st

\* The body of the loop of Scene::hit once obj.hit has returned hit; st
\* holds the loop's two mutable locals.
Scene_hit_body(st, hit) ==
    IF hit # None THEN [t_max |-> hit[1].t, hit_struct |-> hit] ELSE st

\* One pass of the loop of Scene::hit over obj.
Scene_hit_pass(st, obj, ray, t_min, ff) ==
    Scene_hit_body(st, Hit(obj, ray, t_min, st.t_max, ff))

RECURSIVE Scene_hit_loop(_, _, _, _, _, _)
Scene_hit_loop(st, objects, k, ray, t_min, ff) ==
    IF k > Len(objects) THEN st
    ELSE Scene_hit_loop(Scene_hit_pass(st, objects[k], ray, t_min, ff),
                        objects, k + 1, ray, t_min, ff)

Scene_hit(objects, ray, t_min, t_max, ff) ==
    Scene_hit_loop([t_max |-> t_max, hit_struct |-> None],
                   objects, 1, ray, t_min, ff).hit_struct

\* hit.material.scatter(ray, &hit, &mut attenuation) through the trait
\* Material; rnd and xi are the random values the callee may draw.
scatter(material, ray, hit, rnd, xi) ==
    IF material.kind = "Lambertian" THEN Lambertian_scatter(material, ray, hit, rnd)
    ELSE IF material.kind = "Metal" THEN Metal_scatter(material, ray, hit, rnd)
    ELSE IF material.kind = "Dielectric" THEN Dielectric_scatter(material, ray, hit, xi)
    ELSE NullMaterial_scatter(material, ray, hit)

(***************************************************************************)
(* LinearColor (src/color/linear.rs)                                       *)
(***************************************************************************)
from_channels(r, g, b, a) == [r |-> r, g |-> g, b |-> b, a |-> a]

LinearColor_default == from_channels(F(0), F(0), F(0), F(1))

\* LinearColor * Float
LinearColor_mul(self, s) ==
    from_channels(FMul(self.r, s), FMul(self.g, s), FMul(self.b, s), self.a)

\* LinearColor_add with the alpha added like the other channels.
LinearColor_add_alpha(self, rhs) ==
    from_channels(FAdd(self.r, rhs.r), FAdd(self.g, rhs.g), FAdd(self.b, rhs.b),
                  FAdd(self.a, rhs.a))

\* LinearColor + LinearColor
LinearColor_add(self, rhs) ==
    from_channels(FAdd(self.r, rhs.r), FAdd(self.g, rhs.g), FAdd(self.b, rhs.b),
                  self.a)

\* x * x * ... * x, n times.
RECURSIVE powi(_, _)
powi(x, n) == IF n = 0 THEN F(1) ELSE FMul(x, powi(x, n - 1))

\* The q-th root of x >= 0: the least k / Den, lo <= k <= hi, whose q-th
\* power reaches x.
RECURSIVE root(_, _, _, _)
root(x, q, lo, hi) ==
    IF lo = hi THEN Float(lo, Den)
    ELSE IF FGe(powi(Float((lo + hi) \div 2, Den), q), x)
         THEN root(x, q, lo, (lo + hi) \div 2)
         ELSE root(x, q, (lo + hi) \div 2 + 1, hi)

\* f32::powf with the exponent p / q: NaN for a negative base, an exponent
\* that is no integer.
powf(x, p, q) ==
    IF IsNaN(x) \/ x.n < 0 THEN NAN
    ELSE IF x.d = 0 THEN INFINITY
    ELSE powi(root(x, q, 0, Den * (x.n \div x.d + 1)), p)

\* linear.powf(1.0 / GAMMA), GAMMA = 2.2 = 11 / 5
gamma_encode(linear) == powf(linear, 5, 11)

\* x as u8: toward zero, saturating, 0 for NaN.
as_u8(x) ==
    IF IsNaN(x) \/ x.n < 0 THEN 0
    ELSE IF x.d = 0 \/ x.n \div x.d > 255 THEN 255
    ELSE x.n \div x.d

\* to_rgba with the alpha encoded like the other channels.
to_rgba_gamma_alpha(self) ==
    <<as_u8(FMul(gamma_encode(self.r), F(255))),
      as_u8(FMul(gamma_encode(self.g), F(255))),
      as_u8(FMul(gamma_encode(self.b), F(255))),
      as_u8(FMul(gamma_encode(self.a), F(255)))>>

\* LinearColor::to_rgba; an Rgba<u8> is <<r, g, b, a>>.
to_rgba(self) ==
    <<as_u8(FMul(gamma_encode(self.r), F(255))),
      as_u8(FMul(gamma_encode(self.g), F(255))),
      as_u8(FMul(gamma_encode(self.b), F(255))),
      as_u8(FMul(self.a, F(255)))>>

\* lerp with its ends exchanged.
lerp_reversed(t, a, b) ==
    LinearColor_add(LinearColor_mul(b, FSub(F(1), t)), LinearColor_mul(a, t))

\* lerp of src/bin/main.rs, on LinearColor.
lerp(t, a, b) ==
    LinearColor_add(LinearColor_mul(a, FSub(F(1), t)), LinearColor_mul(b, t))

(***************************************************************************)
(* The integrator (src/bin/main.rs)                                        *)
(***************************************************************************)
\* The miss branch of ray_color: the studio background.
background(r) ==
    LET unit == normalized(r.d)
        t == FMul(FAdd(unit.y, F(1)), Float(1, 2))
    IN  lerp(t, from_channels(F(0), F(0), F(0), F(0)),
                from_channels(F(1), F(1), F(1), F(0)))

\* attenuate with every channel multiplied by the red attenuation.
attenuate_gray(c, attenuation) ==
    from_channels(FMul(c.r, attenuation.x), FMul(c.g, attenuation.x),
                  FMul(c.b, attenuation.x), F(1))

\* What a call does with the color c its callee returned.
attenuate(c, attenuation) ==
    from_channels(FMul(c.r, attenuation.x), FMul(c.g, attenuation.y),
                  FMul(c.b, attenuation.z), F(1))

\* 1.0e-4 prevents shadow acne
T_MIN == [n |-> 1, d |-> 10000]

(***************************************************************************)
(* rand::thread_rng(): the generator of a thread is a position in a fixed  *)
(* cyclic stream of values of [0, 1); its seed is any position.            *)
(***************************************************************************)
XiStream == <<F(0), Float(1, 2), Float(1, 2), F(0), Float(1, 2)>>

Seeds == 0..(Len(XiStream) - 1)

\* rng.gen::<f32>(): the value drawn and the generator after the draw.
gen(rng) == [x |-> XiStream[rng + 1], rng |-> (rng + 1) % Len(XiStream)]

\* random_in_unit_sphere() on the generator rng: the rejection loop.
RECURSIVE random_in_unit_sphere_from(_)
random_in_unit_sphere_from(rng) ==
    LET g1 == gen(rng)
        g2 == gen(g1.rng)
        g3 == gen(g2.rng)
        v == random_candidate(g1.x, g2.x, g3.x)
    IN  IF random_accept(v) THEN [v |-> v, rng |-> g3.rng]
        ELSE random_in_unit_sphere_from(g3.rng)

\* Material::scatter on the generator rng of the calling thread.
\* What scatter returned, with the generator it left: drawn if it drew.
scatter_drawn(s, rng, drawn) ==
    [attenuation |-> s.attenuation, scattered |-> s.scattered,
     panic |-> s.panic, rng |-> IF s.drew THEN drawn ELSE rng]

scatter_from(material, ray, hit, rng) ==
    LET r == random_in_unit_sphere_from(rng)
        g == gen(rng)
    IN  scatter_drawn(scatter(material, ray, hit, r.v, g.x), rng,
                      IF material.kind = "Dielectric" THEN g.rng ELSE r.rng)

\* ray_color as a function of its arguments, of the generator rng of the
\* calling thread and of the value ff of the front_face that Sphere::hit
\* leaves open: the color returned, the generator afterwards, and whether
\* an assertion panicked on the way.
RECURSIVE ray_color(_, _, _, _, _)
RECURSIVE ray_color_hit(_, _, _, _, _, _)
ray_color(objects, ray, limit, rng, ff) ==
    ray_color_hit(objects, ray, limit, rng, ff,
                  Scene_hit(objects, ray, T_MIN, INFINITY, ff))

\* return attenuation * ray_color(scene, &scattered, limit - 1)
ray_color_attenuated(c, attenuation) ==
    [color |-> attenuate(c.color, attenuation), rng |-> c.rng,
     panic |-> c.panic]

\* ray_color from what scatter returned on.
ray_color_scattered(objects, limit, ff, s) ==
    IF s.panic
    THEN [color |-> LinearColor_default, rng |-> s.rng, panic |-> TRUE]
    ELSE IF s.scattered # None
    THEN ray_color_attenuated(
             ray_color(objects, s.scattered[1], limit - 1, s.rng, ff),
             s.attenuation)
    ELSE [color |-> LinearColor_default, rng |-> s.rng, panic |-> FALSE]

\* ray_color from what scene.hit returned on.
ray_color_hit(objects, ray, limit, rng, ff, hit) ==
    IF hit # None
    THEN IF limit = 0
         THEN [color |-> LinearColor_default, rng |-> rng, panic |-> FALSE]
         ELSE ray_color_scattered(
                  objects, limit, ff,
                  scatter_from(hit[1].material, ray, hit[1], rng))
    ELSE [color |-> background(ray), rng |-> rng, panic |-> FALSE]

(***************************************************************************)
(* Camera (src/camera.rs).  An angle in radians is kept as the rational    *)
(* q of q * pi.                                                            *)
(***************************************************************************)
degrees_to_radians(degrees) == FDiv(degrees, F(360))

\* tan(q * pi), for the angles the model uses.
tan(q) ==
    IF q = F(0) THEN F(0)
    ELSE IF q = Float(1, 4) THEN F(1)
    ELSE IF q = Float(1, 8) THEN Float(41421, 100000)
    ELSE Float(26795, 100000)

CameraSpec(vfov, aspect, look_from, look_at, up) ==
    [vfov |-> vfov, aspect |-> aspect, look_from |-> look_from,
     look_at |-> look_at, up |-> up]

\* Camera::from_spec from its half_height and half_width on.
\* camera::cross
camera_cross(u, v) ==
    [x |-> FSub(FMul(u.y, v.z), FMul(u.z, v.y)),
     y |-> FSub(FMul(u.z, v.x), FMul(u.x, v.z)),
     z |-> FSub(FMul(u.x, v.y), FMul(u.y, v.x))]

Camera_from_spec_half(origin, u, v, w, half_height, half_width) ==
    [origin |-> origin,
     lower_left_corner |->
         sub(sub(sub(point_sub(origin, V(0, 0, 0)), mul(u, half_width)),
                 mul(v, half_height)), w),
     horizontal |-> mul(u, FMul(F(2), half_width)),
     vertical |-> mul(v, FMul(F(2), half_height))]

\* Camera::from_spec from its u and w on.
Camera_from_spec_uw(spec, u, w) ==
    LET half_height == tan(FDiv(degrees_to_radians(spec.vfov), F(2)))
    IN  Camera_from_spec_half(spec.look_from, u, camera_cross(w, u), w,
                              half_height,
                              FMul(spec.aspect, half_height))

Camera_from_spec(spec) ==
    LET w == normalized(point_sub(spec.look_from, spec.look_at))
    IN  Camera_from_spec_uw(spec, normalized(camera_cross(spec.up, w)), w)

\* get_ray taking the viewport position itself for the direction.
get_ray_position(self, u, v) ==
    Ray_new(self.origin,
            add(add(self.lower_left_corner, mul(self.horizontal, u)),
                mul(self.vertical, v)))

get_ray(self, u, v) ==
    LET direction ==
            sub(add(add(self.lower_left_corner, mul(self.horizontal, u)),
                    mul(self.vertical, v)),
                point_sub(self.origin, V(0, 0, 0)))
    IN  Ray_new(self.origin, direction)

(***************************************************************************)
(* The driver (src/bin/main.rs): render                                    *)
(***************************************************************************)
RenderOptions(nx, ny, ns, n_max_bounce) ==
    [nx |-> nx, ny |-> ny, ns |-> ns, n_max_bounce |-> n_max_bounce]

\* One pass of the loop `for _ in 0..opt.ns` of the closure of pixel
\* (i, j); px holds the local color, the generator of the thread, and the
\* u, v and integrator result of the pass.
\* color = color + ray_color(&scene, &ray, opt.n_max_bounce), with the
\* draws xi_u and xi_v of the pass and the generator the integrator found.
render_sample_add(px, xi_u, xi_v, u, v, at, c) ==
    [color |-> LinearColor_add(px.color, c.color), rng |-> c.rng,
     panic |-> px.panic \/ c.panic, xi_u |-> xi_u, xi_v |-> xi_v,
     u |-> u, v |-> v, at |-> at, c |-> c.color]

\* The pass from its u and v on.
render_sample_uv(opt, camera, objects, px, ff, xi_u, xi_v, u, v, at) ==
    render_sample_add(px, xi_u, xi_v, u, v, at,
                      ray_color(objects, get_ray(camera, u, v),
                                opt.n_max_bounce, at, ff))

render_sample(opt, camera, objects, i, j, px, ff) ==
    LET g1 == gen(px.rng)
        g2 == gen(g1.rng)
    IN  render_sample_uv(opt, camera, objects, px, ff, g1.x, g2.x,
                         FDiv(FAdd(F(i), g1.x), F(opt.nx)),
                         FDiv(FAdd(F(j), g2.x), F(opt.ny)), g2.rng)

\* What the closure has before the first pass of its loop.
render_pixel_start(seed) ==
    [color |-> LinearColor_default, rng |-> seed, panic |-> FALSE,
     xi_u |-> F(0), xi_v |-> F(0), u |-> F(0), v |-> F(0), at |-> seed,
     c |-> LinearColor_default]

RECURSIVE render_loop(_, _, _, _, _, _, _, _)
render_loop(opt, camera, objects, i, j, px, ff, n) ==
    IF n = 0 THEN px
    ELSE render_loop(opt, camera, objects, i, j,
                     render_sample(opt, camera, objects, i, j, px, ff), ff, n - 1)

\* render_scale without the scaling.
render_scale_unscaled(opt, color) == color

\* color = color * (1.0 / opt.ns as f32)
render_scale(opt, color) == LinearColor_mul(color, FDiv(F(1), F(opt.ns)))

\* The color the closure of pixel (i, j) returns when the generator of its
\* thread starts at seed.
render_pixel(opt, camera, objects, i, j, seed, ff) ==
    render_scale(opt, render_loop(opt, camera, objects, i, j,
                                  render_pixel_start(seed), ff, opt.ns).color)

\* (0..opt.ny).into_par_iter().rev(): the j of the row at position r, from 0,
\* of the collected rows.
render_row_forward(opt, r) == r

render_row(opt, r) == opt.ny - 1 - r

\* The inner collect(): the colors of row j in the order of i.
render_collect_row(opt, done, j) == [k \in 1..opt.nx |-> done[<<k - 1, j>>][1]]

\* The outer collect(): the rows in the order of the reversed range.
render_collect(opt, collected) ==
    [k \in 1..opt.ny |-> collected[render_row(opt, k - 1)][1]]

\* [[T]]::concat
RECURSIVE concat(_)
concat(vs) == IF vs = << >> THEN << >> ELSE Head(vs) \o concat(Tail(vs))

(***************************************************************************)
(* The driver (src/bin/main.rs): RenderOptions                             *)
(***************************************************************************)
RenderOptions_default == RenderOptions(40 * 16, 40 * 9, 8, 50)

\* A String is the sequence of its characters.
digit(c) ==
    CASE c = "0" -> 0 [] c = "1" -> 1 [] c = "2" -> 2 [] c = "3" -> 3
      [] c = "4" -> 4 [] c = "5" -> 5 [] c = "6" -> 6 [] c = "7" -> 7
      [] c = "8" -> 8 [] c = "9" -> 9 [] OTHER -> -1

RECURSIVE from_str_digits(_, _)
from_str_digits(digits, result) ==
    IF digits = << >> THEN Some(result)
    ELSE IF digit(Head(digits)) < 0 THEN None
    ELSE from_str_digits(Tail(digits), result * 10 + digit(Head(digits)))

\* str::parse::<usize>(): the Ok value, or None for an Err.  An empty
\* string, a lone sign, a "-" and any character that is no digit are
\* errors; one leading "+" is accepted.  The strings of the model are too
\* short to overflow a usize.
usize_from_str(src) ==
    IF src = << >> THEN None
    ELSE IF Len(src) = 1 /\ (src[1] = "+" \/ src[1] = "-") THEN None
    ELSE IF src[1] = "+" THEN from_str_digits(Tail(src), 0)
    ELSE from_str_digits(src, 0)

\* Vec::get, with the index counted from 0.
Vec_get(v, index) == IF index < Len(v) THEN Some(v[index + 1]) ELSE None

\* fn arg<T: FromStr>(arg: Option<&String>, default: T) -> T
arg(a, default) ==
    LET parse == usize_from_str(IF a = None THEN << >> ELSE a[1])
    IN  IF parse = None THEN default ELSE parse[1]

RenderOptions_from_args_shifted(argv) ==
    LET default == RenderOptions_default
    IN  [ns |-> arg(Vec_get(argv, 1), default.ns),
         nx |-> arg(Vec_get(argv, 1), default.nx),
         ny |-> arg(Vec_get(argv, 2), default.ny),
         n_max_bounce |-> default.n_max_bounce]

RenderOptions_from_args(argv) ==
    LET default == RenderOptions_default
    IN  [ns |-> arg(Vec_get(argv, 1), default.ns),
         nx |-> arg(Vec_get(argv, 2), default.nx),
         ny |-> arg(Vec_get(argv, 3), default.ny),
         n_max_bounce |-> default.n_max_bounce]

(***************************************************************************)
(* The inputs of the model.                                                *)
(***************************************************************************)
Half == Float(1, 2)

Primitives ==
    { Sphere(V(0, 0, 0), F(1), Lambertian(vec3(Half, Half, Half))),
      Sphere(V(0, 0, -3), F(1), Metal(vec3(F(1), Half, F(0)), F(1))),
      Triangle(V(-2, -2, 2), V(2, -2, 2), V(0, 2, 2), NullMaterial),
      Triangle(V(-2, -2, 1), V(2, -2, 1), V(0, 2, 1), Dielectric(Float(3, 2))),
      Sphere(V(0, 1, 0), F(2), Lambertian(vec3(Half, Half, Half))),
      Triangle(V(-3, 1, 1), V(9, -7, 1), V(-3, 5, -3), Dielectric(Float(3, 2))) }

Rays ==
    { Ray_new(V(0, 0, 3), V(0, 0, -1)),
      Ray_new(V(0, 0, 3), V(0, 0, -2)),
      Ray_new(V(0, 0, 3), V(0, 3, -4)),
      Ray_new(V(0, 0, 0), V(0, 0, 1)),
      Ray_new(V(0, 0, -3), V(0, 0, 1)),
      Ray_new(V(0, 0, -3), V(0, 0, -1)),
      Ray_new(V(1, 0, 3), V(0, 0, -1)),
      Ray_new(V(0, 0, 3), V(0, 1, 0)),
      Ray_new(V(0, 0, 3), V(0, -1, 0)),
      Ray_new(V(0, 0, 3), V(3, 4, 0)),
      Ray_new(V(2, 3, 3), V(-2, -3, -3)) }

\* The windows (t_min0, t_max0) Scene::hit is asked about.
Windows == { <<T_MIN, INFINITY>>, <<F(0), F(3)>>, <<F(1), F(2)>> }

\* The sequences of at most n different primitives.
RECURSIVE SeqsUpTo(_)
SeqsUpTo(n) ==
    IF n = 0 THEN { << >> }
    ELSE SeqsUpTo(n - 1) \cup
         { Append(q, x) : q \in { q \in SeqsUpTo(n - 1) : Len(q) = n - 1 },
                          x \in Primitives }

Scenes == { q \in SeqsUpTo(MaxObjects) :
              \A i, j \in 1..Len(q) : i # j => q[i] # q[j] }

\* The images rendered: nx, ny and ns vary, n_max_bounce is the default.
RenderOpts ==
    {RenderOptions(3, 2, 1, RenderOptions_default.n_max_bounce),
     RenderOptions(1, 3, 2, RenderOptions_default.n_max_bounce),
     RenderOptions(2, 2, 2, RenderOptions_default.n_max_bounce)}

\* The images of which one pixel closure is followed pass by pass.
PixelOpts ==
    RenderOpts \cup
    {RenderOptions(1, 1, 0, RenderOptions_default.n_max_bounce),
     RenderOptions(2, 1, 3, RenderOptions_default.n_max_bounce),
     RenderOptions(1, 2, 4, RenderOptions_default.n_max_bounce)}

\* The pixels (i, j) of an image.
Pixels(opt) == (0..(opt.nx - 1)) \X (0..(opt.ny - 1))

RenderScenes ==
    {<<Sphere(V(0, 0, 0), F(1), Lambertian(vec3(Half, Half, Half)))>>,
     <<Sphere(V(0, 0, 0), F(1), Metal(vec3(F(1), Half, F(0)), F(1))),
       Triangle(V(-2, -2, -1), V(2, -2, -1), V(0, 2, -1), NullMaterial)>>}

\* The camera of main, looking from (0, 0, 3).
RenderCamera(opt) ==
    Camera_from_spec(CameraSpec(F(60), FDiv(F(opt.nx), F(opt.ny)),
                                V(0, 0, 3), V(0, 0, 0), vec3(F(0), F(1), F(0))))

\* render_pixel, tabulated over the inputs of the model.
render_pixel_table ==
    [opt \in RenderOpts, objects \in RenderScenes,
     p \in UNION {Pixels(o) : o \in RenderOpts}, seed \in Seeds, ff \in BOOLEAN |->
        IF p \in Pixels(opt)
        THEN render_pixel(opt, RenderCamera(opt), objects, p[1], p[2], seed, ff)
        ELSE LinearColor_default] @@ << >>

\* The command lines: the strings an argument may be, characters in a row.
Strings ==
    {<< >>, <<"0">>, <<"7">>, <<"1", "2">>, <<"+", "3">>, <<"-", "1">>,
     <<"1", "x">>, <<" ", "5">>, <<"+">>}

\* The pixel buffers written: the Rgba<u8> values of a pixel.
Rgbas == {<<0, 0, 0, 255>>, <<255, 128, 0, 0>>}

ImageSizes == {<<1, 1>>, <<2, 1>>, <<1, 2>>, <<2, 2>>}

\* The values of a channel of a color handed to to_rgba.
Channels ==
    {F(-1), F(0), Float(1, 256), Float(1, 8), Half, Float(3, 4), F(1), F(2),
     INFINITY, NAN}

\* The vectors handed to the cross products: the unit basis, its negations
\* and sums, and two vectors whose products have to be rounded.
Vecs ==
    {V(i, j, k) : i \in -1..1, j \in -1..1, k \in -1..1} \cup
    {vec3(Float(1, 3), Float(1, 7), Float(1, 11)),
     vec3(Float(1, 13), Float(2, 5), Float(-3, 17))}

\* The refractions asked for: a direction uv, the normal n of the interface
\* and the indices eta and eta_prime of its two sides.  The directions are
\* unit vectors with rational components, at normal incidence, at angles
\* whose refracted sine is rational too, beyond the critical angle and along
\* the normal, and the normalized (-2, -3, -3) head-on to its own normal.
Refractions ==
    {<<V(0, 0, -1), V(0, 0, 1), F(1), F(2)>>,
     <<vec3(Float(3, 5), F(0), Float(-4, 5)), V(0, 0, 1), F(4), F(3)>>,
     <<vec3(Float(4, 5), F(0), Float(-3, 5)), V(0, 0, 1), F(3), F(4)>>,
     <<vec3(F(0), Float(3, 5), Float(-4, 5)), V(0, 0, 1), F(25), F(39)>>,
     <<vec3(F(0), Float(-12, 13), Float(-5, 13)), V(0, 0, 1), F(13), F(20)>>,
     <<vec3(Float(3, 5), Float(-4, 5), F(0)), V(0, 1, 0), F(4), F(3)>>,
     <<vec3(Float(4, 5), F(0), Float(-3, 5)), V(0, 0, 1), F(2), F(1)>>,
     <<vec3(Float(3, 5), F(0), Float(4, 5)), V(0, 0, 1), F(4), F(3)>>,
     <<normalized(V(-2, -3, -3)), normalized(V(2, 3, 3)), F(1), Float(3, 2)>>}

\* The camera specs handed to Camera::from_spec: the vfov of main and the
\* one whose half_height is 1, three aspects, views along -z from two
\* points and, with half_height 1, two oblique views whose basis is
\* rational.
CameraSpecs ==
    {CameraSpec(F(vfov), aspect, view[1], view[2], V(0, 1, 0)) :
        vfov \in {60, 180}, aspect \in {F(1), Float(3, 2), F(2)},
        view \in {<<V(0, 0, 3), V(0, 0, 0)>>, <<V(1, 1, 1), V(1, 1, -1)>>}} \cup
    {CameraSpec(F(180), aspect, view[1], view[2], V(0, 1, 0)) :
        aspect \in {F(1), Float(3, 2), F(2)},
        view \in {<<V(3, 0, 4), V(0, 0, 0)>>, <<V(-4, 1, 0), V(0, 1, 3)>>}}

\* The (s, t) of get_ray: the corners, the centre and the middles of the
\* sides of the viewport.
Viewport == {F(0), Half, F(1)} \X {F(0), Half, F(1)}

\* The calls of library functions on their own.
\* The values rng.gen::<f32>() returns to the loop, all in [0, 1).
Gen == {F(0), Float(1, 4), Half, Float(3, 4), Float(255, 256)}

\* The candidates of Gen the test accepts.
GenAccepted ==
    {v \in {random_candidate(x1, x2, x3) : x1 \in Gen, x2 \in Gen, x3 \in Gen} :
        random_accept(v)}

\* The rays that reach the plane z = 0 at the origin, from above and from
\* below, head on and at a slant, and the hit records of that plane.
Incidences ==
    {Ray_new(point_sub(V(0, 0, 0), d), d) :
        d \in {V(0, 0, -1), V(0, 4, -3), V(0, 24, -7), V(0, 3, 4)}}

Roughnesses == {F(0), Half, F(1)}

MetalCalls ==
    {[fn |-> "Metal_scatter",
      self |-> Metal(V(1, 1, 1), roughness),
      ray |-> r,
      hit |-> HitStruct_new(F(1), V(0, 0, 0), r, V(0, 0, 1),
                            Metal(V(1, 1, 1), roughness)),
      rnd |-> v] :
        roughness \in Roughnesses, r \in Incidences, v \in GenAccepted}

\* The cosines and the refraction indices schlick is called with.
Cosines == {F(-1), Float(-1, 2), F(0), Float(1, 4), Half, F(1)}

Indices ==
    {Half, Float(2, 3), F(1), Float(4, 3), Float(3, 2), F(2), Float(12, 5), F(3)}

Calls ==
    {[fn |-> "to_rgba", self |-> from_channels(x, y, x, y)] :
        x \in Channels, y \in Channels} \cup
    {[fn |-> "cross", u |-> u, v |-> v] : u \in Vecs, v \in Vecs} \cup
    {[fn |-> "refract", uv |-> r[1], n |-> r[2], eta |-> r[3],
      eta_prime |-> r[4]] : r \in Refractions} \cup
    {[fn |-> "get_ray", spec |-> c, s |-> st[1], t |-> st[2]] :
        c \in CameraSpecs, st \in Viewport} \cup
    MetalCalls \cup
    {[fn |-> "schlick", cosine |-> c, refraction_index |-> n] :
        c \in Cosines, n \in Indices}

Idle == "idle"

hitVars == <<t_min0, t_max0, idx, loop, hits>>

colorVars == <<limit0, pc, cur, frames, ret, scat, queried>>

renderVars == <<task, rows, pixels>>

pixelVars == <<pixel, local, pass, samples, out>>

argsVars == <<args, parsed>>

writeVars == <<wargs, wpc, wfile, wfailed, wresult>>

libVars == <<call, returned>>

vars == <<scene_objects, ray0, options, cam, hitVars, colorVars, renderVars,
          pixelVars, argsVars, writeVars, libVars>>

HitIdle == t_min0 = Idle /\ t_max0 = Idle /\ idx = 0 /\ loop = Idle /\ hits = Idle

ColorIdle == /\ limit0 = Idle /\ pc = Idle /\ cur = Idle
             /\ frames = Idle /\ ret = Idle /\ scat = Idle
             /\ queried = Idle

RenderIdle == task = Idle /\ rows = Idle /\ pixels = Idle

PixelIdle == /\ pixel = Idle /\ local = Idle /\ pass = 0
             /\ samples = Idle /\ out = Idle

ArgsIdle == args = Idle /\ parsed = Idle

WriteIdle == /\ wargs = Idle /\ wpc = Idle /\ wfile = Idle
             /\ wfailed = Idle /\ wresult = Idle

LibIdle == call = Idle /\ returned = Idle

(***************************************************************************)
(* Scene::hit, one pass of its loop at a time.                             *)
(***************************************************************************)
InitHit ==
    /\ scene_objects \in Scenes
    /\ ray0 \in Rays
    /\ \E w \in Windows : t_min0 = w[1] /\ t_max0 = w[2]
    /\ idx = 1
    /\ loop = [t_max |-> t_max0, hit_struct |-> None]
    /\ hits = << >>
    /\ options = Idle /\ cam = Idle
    /\ ColorIdle /\ RenderIdle /\ PixelIdle /\ ArgsIdle /\ WriteIdle /\ LibIdle

\* for obj in self.objects.iter() { ... }
Scene_hit_iter ==
    /\ idx >= 1
    /\ idx <= Len(scene_objects)
    /\ \E ff \in BOOLEAN :
         /\ hits' = Append(hits, Hit(scene_objects[idx], ray0, t_min0, loop.t_max, ff))
         /\ loop' = Scene_hit_pass(loop, scene_objects[idx], ray0, t_min0, ff)
    /\ idx' = idx + 1
    /\ UNCHANGED <<scene_objects, ray0, options, cam, t_min0, t_max0, colorVars,
                 renderVars, pixelVars, argsVars, writeVars,
                 libVars>>

NextHit == Scene_hit_iter

SpecHit == InitHit /\ [][NextHit]_vars

\* Scene::hit has returned loop.hit_struct.
Scene_hit_returned == idx = Len(scene_objects) + 1

(***************************************************************************)
(* ray_color, one call or one return at a time.                            *)
(***************************************************************************)
InitColor ==
    /\ scene_objects \in Scenes
    /\ ray0 \in Rays
    /\ limit0 \in 0..MaxLimit
    /\ pc = "call"
    /\ cur = [ray |-> ray0, limit |-> limit0]
    /\ frames = << >>
    /\ ret = LinearColor_default
    /\ scat = None
    /\ queried = << >>
    /\ options = Idle /\ cam = Idle
    /\ HitIdle /\ RenderIdle /\ PixelIdle /\ ArgsIdle /\ WriteIdle /\ LibIdle

\* What the scatter of a material draws from the generator of its thread:
\* Lambertian and Metal a vector of random_in_unit_sphere, Dielectric a
\* uniform value, the Null material nothing.  The draw a material does not
\* make is set to zero.
draws(material) ==
    IF material.kind \in {"Lambertian", "Metal"}
    THEN random_in_unit_sphere \X {F(0)}
    ELSE IF material.kind = "Dielectric" THEN {V(0, 0, 0)} \X Xi
    ELSE {<<V(0, 0, 0), F(0)>>}

\* The recursive call passes a budget of zero.
recursive_call_last(scattered, limit) == [ray |-> scattered, limit |-> 0]

\* ray_color(scene, &scattered, limit - 1): the arguments of the recursive
\* call.
recursive_call(scattered, limit) == [ray |-> scattered, limit |-> limit - 1]

\* A call of ray_color runs up to its recursive call or to its return.
\* queried is << >> until the call has asked the scene, and then holds the
\* Option scene.hit returned.
ray_color_call ==
    /\ pc = "call"
    /\ \E ff \in BOOLEAN :
         \E hit \in {Scene_hit(scene_objects, cur.ray, T_MIN, INFINITY, ff)} :
             IF hit = None
             THEN /\ ret' = background(cur.ray)
                  /\ pc' = "ret"
                  /\ queried' = <<hit>>
                  /\ UNCHANGED <<cur, frames, scat>>
             ELSE IF cur.limit = 0
             THEN /\ ret' = LinearColor_default
                  /\ pc' = "ret"
                  /\ queried' = <<hit>>
                  /\ UNCHANGED <<cur, frames, scat>>
             ELSE \E draw \in draws(hit[1].material) :
                    \E s \in {scatter(hit[1].material, cur.ray, hit[1],
                                      draw[1], draw[2])} :
                        /\ scat' = Some([ray |-> cur.ray, hit |-> hit[1], out |-> s,
                                         xi |-> IF hit[1].material.kind = "Dielectric"
                                                   /\ s.drew
                                                THEN Some(draw[2]) ELSE None,
                                         path |-> IF scat = None
                                                  THEN <<s.attenuation>>
                                                  ELSE Append(scat[1].path,
                                                              s.attenuation)])
                        /\ IF s.panic
                           THEN /\ pc' = "panic"
                                /\ queried' = <<hit>>
                                /\ UNCHANGED <<cur, frames, ret>>
                           ELSE IF s.scattered # None
                           THEN /\ frames' = Append(frames, s.attenuation)
                                /\ cur' = recursive_call(s.scattered[1], cur.limit)
                                /\ pc' = "call"
                                /\ queried' = << >>
                                /\ UNCHANGED ret
                           ELSE /\ ret' = LinearColor_default
                                /\ pc' = "ret"
                                /\ queried' = <<hit>>
                                /\ UNCHANGED <<cur, frames>>
    /\ UNCHANGED <<scene_objects, ray0, options, cam, limit0, hitVars,
                 renderVars, pixelVars, argsVars, writeVars,
                 libVars>>

\* A call returns to its caller, which multiplies by its attenuation; the
\* outermost call returns ret to the driver.
ray_color_return ==
    /\ pc = "ret"
    /\ IF frames = << >>
       THEN /\ pc' = "done"
            /\ UNCHANGED <<frames, ret>>
       ELSE /\ ret' = attenuate(ret, frames[Len(frames)])
            /\ frames' = SubSeq(frames, 1, Len(frames) - 1)
            /\ pc' = "ret"
    /\ UNCHANGED <<scene_objects, ray0, options, cam, limit0, cur, scat, queried,
                   hitVars, renderVars, pixelVars, argsVars, writeVars,
                   libVars>>

NextColor == ray_color_call \/ ray_color_return

SpecColor == InitColor /\ [][NextColor]_vars

\* A step of ray_color as it shows on pc, cur and frames: a call returns or
\* panics, the outermost call is done, a call recurses, a pending call
\* resumes.  Every step of NextColor is one of these, and one of them is
\* possible exactly when pc is "call" or "ret", which is when NextColor is
\* enabled.
ray_color_step ==
    \/ pc = "call" /\ pc' \in {"ret", "panic"} /\ cur' = cur /\ frames' = frames
    \/ pc = "ret" /\ pc' = "done" /\ cur' = cur /\ frames' = frames
    \/ pc = "call" /\ pc' = "call" /\ cur' # cur
    \/ pc = "ret" /\ pc' = "ret" /\ frames' # frames

\* The thread that runs ray_color is never suspended for ever: a call that
\* can go on goes on.
SpecColorFair == SpecColor /\ WF_<<pc, cur, frames>>(ray_color_step)

(***************************************************************************)
(* render: the closures of the pixels run as parallel tasks, in any order. *)
(***************************************************************************)
InitRender ==
    /\ options \in RenderOpts
    /\ scene_objects \in RenderScenes
    /\ cam = RenderCamera(options)
    /\ task = [p \in Pixels(options) |-> None]
    /\ rows = [j \in 0..(options.ny - 1) |-> None]
    /\ pixels = None
    /\ ray0 = Idle
    /\ HitIdle /\ ColorIdle /\ PixelIdle /\ ArgsIdle /\ WriteIdle /\ LibIdle

\* The closure of pixel (i, j) runs on a thread whose generator is at any
\* seed, and returns its color.
render_pixel_task(i, j) ==
    /\ task[<<i, j>>] = None
    /\ \E seed \in Seeds, ff \in BOOLEAN :
         task' = [task EXCEPT ![<<i, j>>] =
                     Some(render_pixel_table[options, scene_objects, <<i, j>>,
                                             seed, ff])]
    /\ UNCHANGED <<scene_objects, ray0, options, cam, rows, pixels, hitVars,
                   colorVars, pixelVars, argsVars, writeVars,
                 libVars>>

\* The closure of row j collects the colors of its pixels.
render_row_task(j) ==
    /\ rows[j] = None
    /\ \A i \in 0..(options.nx - 1) : task[<<i, j>>] # None
    /\ rows' = [rows EXCEPT ![j] = Some(render_collect_row(options, task, j))]
    /\ UNCHANGED <<scene_objects, ray0, options, cam, task, pixels, hitVars,
                   colorVars, pixelVars, argsVars, writeVars,
                 libVars>>

\* The rows are collected and concatenated, and render returns.
render_return ==
    /\ pixels = None
    /\ \A j \in 0..(options.ny - 1) : rows[j] # None
    /\ pixels' = Some(concat(render_collect(options, rows)))
    /\ UNCHANGED <<scene_objects, ray0, options, cam, task, rows, hitVars,
                   colorVars, pixelVars, argsVars, writeVars,
                 libVars>>

NextRender ==
    \/ \E p \in Pixels(options) : render_pixel_task(p[1], p[2])
    \/ \E j \in 0..(options.ny - 1) : render_row_task(j)
    \/ render_return

SpecRender == InitRender /\ [][NextRender]_vars

(***************************************************************************)
(* The closure of one pixel, one pass of its loop at a time.               *)
(***************************************************************************)
InitPixel ==
    /\ options \in PixelOpts
    /\ scene_objects \in RenderScenes
    /\ cam = RenderCamera(options)
    /\ \E p \in Pixels(options), ff \in BOOLEAN :
         pixel = [i |-> p[1], j |-> p[2], ff |-> ff]
    /\ \E seed \in Seeds : local = render_pixel_start(seed)
    /\ pass = 0
    /\ samples = << >>
    /\ out = None
    /\ ray0 = Idle
    /\ HitIdle /\ ColorIdle /\ RenderIdle /\ ArgsIdle /\ WriteIdle /\ LibIdle

\* for _ in 0..opt.ns { ... }
render_pixel_pass ==
    /\ out = None
    /\ pass < options.ns
    /\ local' = render_sample(options, cam, scene_objects, pixel.i, pixel.j,
                              local, pixel.ff)
    /\ samples' = Append(samples, local')
    /\ pass' = pass + 1
    /\ UNCHANGED <<scene_objects, ray0, options, cam, pixel, out, hitVars,
                   colorVars, renderVars, argsVars, writeVars,
                 libVars>>

\* color = color * (1.0 / opt.ns as f32); color
render_pixel_return ==
    /\ out = None
    /\ pass = options.ns
    /\ out' = Some(render_scale(options, local.color))
    /\ UNCHANGED <<scene_objects, ray0, options, cam, pixel, local, pass,
                   samples, hitVars, colorVars, renderVars, argsVars, writeVars,
                 libVars>>

NextPixel == render_pixel_pass \/ render_pixel_return

SpecPixel == InitPixel /\ [][NextPixel]_vars

(***************************************************************************)
(* RenderOptions::from_args                                                *)
(***************************************************************************)
InitArgs ==
    /\ args \in UNION {[1..n -> Strings] : n \in 0..MaxArgs}
    /\ parsed = None
    /\ scene_objects = Idle /\ ray0 = Idle /\ options = Idle /\ cam = Idle
    /\ HitIdle /\ ColorIdle /\ RenderIdle /\ PixelIdle /\ WriteIdle /\ LibIdle

from_args ==
    /\ parsed = None
    /\ parsed' = Some(RenderOptions_from_args(args))
    /\ UNCHANGED <<scene_objects, ray0, options, cam, args, hitVars, colorVars,
                   renderVars, pixelVars, writeVars,
                 libVars>>

NextArgs == from_args

SpecArgs == InitArgs /\ [][NextArgs]_vars

(***************************************************************************)
(* write_image, one I/O operation at a time.  An operation succeeds or     *)
(* fails as the file system decides.                                       *)
(***************************************************************************)
InitWrite ==
    /\ \E size \in ImageSizes :
         \E data \in [1..(size[1] * size[2]) -> Rgbas] :
             wargs = [pixels |-> data, nx |-> size[1], ny |-> size[2]]
    /\ wpc = "create"
    /\ wfile = None
    /\ wfailed = {}
    /\ wresult = None
    /\ scene_objects = Idle /\ ray0 = Idle /\ options = Idle /\ cam = Idle
    /\ HitIdle /\ ColorIdle /\ RenderIdle /\ PixelIdle /\ ArgsIdle /\ LibIdle

\* let file = File::create(path).unwrap();
write_image_create ==
    /\ wpc = "create"
    /\ \E ok \in BOOLEAN :
         IF ok
         THEN wfile' = Some(<< >>) /\ wpc' = "header" /\ UNCHANGED wfailed
         ELSE wpc' = "panic" /\ wfailed' = wfailed \cup {"create"}
                             /\ UNCHANGED wfile
    /\ UNCHANGED <<scene_objects, ray0, options, cam, wargs, wresult, hitVars,
                   colorVars, renderVars, pixelVars, argsVars,
                 libVars>>

\* let mut writer = encoder.write_header().unwrap();
write_image_header ==
    /\ wpc = "header"
    /\ \E ok \in BOOLEAN :
         IF ok
         THEN /\ wfile' = Some(Append(wfile[1],
                     [width |-> wargs.nx, height |-> wargs.ny,
                      color |-> "RGBA", depth |-> 8]))
              /\ wpc' = "data"
              /\ UNCHANGED wfailed
         ELSE wpc' = "panic" /\ wfailed' = wfailed \cup {"header"}
                             /\ UNCHANGED wfile
    /\ UNCHANGED <<scene_objects, ray0, options, cam, wargs, wresult, hitVars,
                   colorVars, renderVars, pixelVars, argsVars,
                 libVars>>

\* writer.write_image_data(&pixel_data).unwrap();
write_image_data ==
    /\ wpc = "data"
    /\ \E ok \in BOOLEAN :
         IF ok
         THEN /\ wfile' = Some(Append(wfile[1], concat(wargs.pixels)))
              /\ wpc' = "return"
              /\ UNCHANGED wfailed
         ELSE wpc' = "panic" /\ wfailed' = wfailed \cup {"data"}
                             /\ UNCHANGED wfile
    /\ UNCHANGED <<scene_objects, ray0, options, cam, wargs, wresult, hitVars,
                   colorVars, renderVars, pixelVars, argsVars,
                 libVars>>

\* Ok(())
write_image_return ==
    /\ wpc = "return"
    /\ wresult' = Some("Ok")
    /\ wpc' = "done"
    /\ UNCHANGED <<scene_objects, ray0, options, cam, wargs, wfile, wfailed,
                   hitVars, colorVars, renderVars, pixelVars, argsVars,
                 libVars>>

NextWrite ==
    \/ write_image_create
    \/ write_image_header
    \/ write_image_data
    \/ write_image_return

SpecWrite == InitWrite /\ [][NextWrite]_vars

(***************************************************************************)
(* The functions of the library called on their own, as its tests do.      *)
(***************************************************************************)
InitLib ==
    /\ call \in Calls
    /\ returned = << >>
    /\ scene_objects = Idle /\ ray0 = Idle /\ options = Idle /\ cam = Idle
    /\ HitIdle /\ ColorIdle /\ RenderIdle /\ PixelIdle /\ ArgsIdle /\ WriteIdle

\* c.to_rgba()
to_rgba_call ==
    /\ call.fn = "to_rgba"
    /\ returned = << >>
    /\ returned' = <<to_rgba(call.self)>>
    /\ UNCHANGED <<scene_objects, ray0, options, cam, call, hitVars, colorVars,
                   renderVars, pixelVars, argsVars, writeVars>>

\* cross(&u, &v) and cross(&v, &u) of geo::vec3, and cross(u, v) of camera
cross_call ==
    /\ call.fn = "cross"
    /\ returned = << >>
    /\ returned' = <<cross(call.u, call.v), cross(call.v, call.u),
                     camera_cross(call.u, call.v)>>
    /\ UNCHANGED <<scene_objects, ray0, options, cam, call, hitVars, colorVars,
                   renderVars, pixelVars, argsVars, writeVars>>

\* let w1 = refract(w, n, eta_prime / eta), w being what the first call
\* returned; a call whose assertion failed returns nothing to refract back.
refract_back(c, w) ==
    IF w.panic THEN <<w>>
    ELSE <<w, refract(w.v, c.n, FDiv(c.eta_prime, c.eta))>>

\* let w = refract(u, n, eta / eta_prime), then the refraction back
refract_call ==
    /\ call.fn = "refract"
    /\ returned = << >>
    /\ returned' = refract_back(call, refract(call.uv, call.n,
                                              FDiv(call.eta, call.eta_prime)))
    /\ UNCHANGED <<scene_objects, ray0, options, cam, call, hitVars, colorVars,
                   renderVars, pixelVars, argsVars, writeVars>>

\* Camera::from_spec(spec).get_ray(s, t)
get_ray_call ==
    /\ call.fn = "get_ray"
    /\ returned = << >>
    /\ returned' = <<get_ray(Camera_from_spec(call.spec), call.s, call.t)>>
    /\ UNCHANGED <<scene_objects, ray0, options, cam, call, hitVars, colorVars,
                   renderVars, pixelVars, argsVars, writeVars>>

\* self.scatter(ray, hit, &mut attenuation) of a Metal, rnd being what
\* random_in_unit_sphere() returns to it
Metal_scatter_call ==
    /\ call.fn = "Metal_scatter"
    /\ returned = << >>
    /\ returned' = <<Metal_scatter(call.self, call.ray, call.hit, call.rnd)>>
    /\ UNCHANGED <<scene_objects, ray0, options, cam, call, hitVars, colorVars,
                   renderVars, pixelVars, argsVars, writeVars>>

\* schlick(cosine, refraction_index) and
\* schlick(cosine, refraction_index.recip())
schlick_call ==
    /\ call.fn = "schlick"
    /\ returned = << >>
    /\ returned' = <<schlick(call.cosine, call.refraction_index),
                     schlick(call.cosine, FRecip(call.refraction_index))>>
    /\ UNCHANGED <<scene_objects, ray0, options, cam, call, hitVars, colorVars,
                   renderVars, pixelVars, argsVars, writeVars>>

NextLib ==
    \/ to_rgba_call
    \/ cross_call
    \/ refract_call
    \/ get_ray_call
    \/ Metal_scatter_call
    \/ schlick_call

SpecLib == InitLib /\ [][NextLib]_vars

(***************************************************************************)
(* random_in_unit_sphere, one pass of its rejection loop at a time.        *)
(***************************************************************************)
InitSphere ==
    /\ call = [fn |-> "random_in_unit_sphere", v |-> None, passes |-> 0]
    /\ returned = << >>
    /\ scene_objects = Idle /\ ray0 = Idle /\ options = Idle /\ cam = Idle
    /\ HitIdle /\ ColorIdle /\ RenderIdle /\ PixelIdle /\ ArgsIdle /\ WriteIdle

\* loop { let v = ...; if v.len_squared() <= 1.0 { return v; } }
\* passes counts the passes up to MaxPasses and stays there.
random_in_unit_sphere_pass ==
    /\ call.fn = "random_in_unit_sphere"
    /\ returned = << >>
    /\ \E x1 \in Gen, x2 \in Gen, x3 \in Gen :
         \E v \in {random_candidate(x1, x2, x3)} :
             /\ call' = [call EXCEPT !.v = Some(v),
                                     !.passes = IF @ < MaxPasses THEN @ + 1 ELSE @]
             /\ returned' = IF random_accept(v) THEN <<v>> ELSE << >>
    /\ UNCHANGED <<scene_objects, ray0, options, cam, hitVars, colorVars,
                   renderVars, pixelVars, argsVars, writeVars>>

NextSphere == random_in_unit_sphere_pass

SpecSphere == InitSphere /\ [][NextSphere]_vars

\* The pass that draws a candidate the test accepts, as it shows on returned.
random_in_unit_sphere_return ==
    /\ call.fn = "random_in_unit_sphere"
    /\ returned = << >>
    /\ returned' \in {<<v>> : v \in GenAccepted}

\* A fair random source: the loop does not draw rejected candidates for
\* ever.
SpecSphereFair == SpecSphere /\ WF_returned(random_in_unit_sphere_return)

(***************************************************************************)
(* Properties of Scene::hit and of the shapes, under SpecHit.              *)
(***************************************************************************)
\* C2: every hit record a primitive returns, Sphere::hit and Triangle::hit
\* alike, has its normal against the ray: dot(ray.direction, hit.n) < 0.
C2_NormalAgainstRay ==
    \A i \in 1..Len(hits) :
        hits[i] # None => FLt(dot(ray0.d, hits[i][1].n), F(0))

\* What the i-th primitive reports in the whole window of the call.
window_hit(i) == Hit(scene_objects[i], ray0, t_min0, t_max0, TRUE)

\* The primitives that report a hit in the whole window of the call.
hitting == {i \in 1..Len(scene_objects) : window_hit(i) # None}

\* C3: Scene::hit returns None iff no primitive reports a hit in the
\* window, and otherwise a hit whose t is the least t of the primitives'
\* hits in the window, whatever the order of the objects.
C3_NearestHit ==
    Scene_hit_returned =>
        /\ loop.hit_struct = None <=> hitting = {}
        /\ loop.hit_struct # None =>
              /\ \E i \in hitting : loop.hit_struct[1].t = window_hit(i)[1].t
              /\ \A i \in hitting : FLe(loop.hit_struct[1].t, window_hit(i)[1].t)

\* Two primitives hit in the window and the first is the nearer one.
C3_Witness ==
    /\ Scene_hit_returned
    /\ Len(scene_objects) = 2
    /\ hitting = {1, 2}
    /\ FLt(window_hit(1)[1].t, window_hit(2)[1].t)
    /\ loop.hit_struct = window_hit(1)

\* The upper end of the window the i-th primitive is asked about: the t of
\* the latest hit before it, t_max0 when there is none.
RECURSIVE closest_so_far(_)
closest_so_far(i) ==
    IF i = 1 THEN t_max0
    ELSE IF hits[i - 1] # None THEN hits[i - 1][1].t
         ELSE closest_so_far(i - 1)

\* Delta = b^2 - a c of the sphere s and the ray r, b = oc . d.
delta(s, r) ==
    FSub(FMul(dot(point_sub(r.o, s.center), r.d),
              dot(point_sub(r.o, s.center), r.d)),
         FMul(len_squared(r.d),
              FSub(len_squared(point_sub(r.o, s.center)),
                   FMul(s.radius, s.radius))))

\* The root (-b + sign sqrt(Delta)) / a of the sphere s and the ray r.
quadratic_root(s, r, sign) ==
    FDiv(FAdd(FNeg(dot(point_sub(r.o, s.center), r.d)),
              FMul(F(sign), FSqrt(delta(s, r)))),
         len_squared(r.d))

\* h is a hit at t of the sphere s by the ray r: the point is r.eval(t) and
\* the normal is (p - center) / radius.
sphere_hit_at(h, s, r, t) ==
    /\ h # None
    /\ h[1].t = t
    /\ h[1].p = eval(r, t)
    /\ h[1].n.x = FDiv(FSub(eval(r, t).x, s.center.x), s.radius)
    /\ h[1].n.y = FDiv(FSub(eval(r, t).y, s.center.y), s.radius)
    /\ h[1].n.z = FDiv(FSub(eval(r, t).z, s.center.z), s.radius)

in_window(t, i) == FGt(t, t_min0) /\ FLt(t, closest_so_far(i))

\* C16: Sphere::hit misses when Delta = b^2 - a c <= 0; otherwise it
\* reports the smaller root (-b - sqrt(Delta)) / a when that root is strictly
\* inside (t_min, t_max), else the larger root when that one is, else a miss;
\* the point is ray.eval(t) and the normal is (p - center) / radius.
C16_SphereNearerRoot ==
    \A i \in 1..Len(hits) :
        scene_objects[i].kind = "Sphere" =>
            IF FLe(delta(scene_objects[i], ray0), F(0))
            THEN hits[i] = None
            ELSE IF in_window(quadratic_root(scene_objects[i], ray0, -1), i)
            THEN sphere_hit_at(hits[i], scene_objects[i], ray0,
                               quadratic_root(scene_objects[i], ray0, -1))
            ELSE IF in_window(quadratic_root(scene_objects[i], ray0, 1), i)
            THEN sphere_hit_at(hits[i], scene_objects[i], ray0,
                               quadratic_root(scene_objects[i], ray0, 1))
            ELSE hits[i] = None

\* A ray that starts inside the sphere of radius 2 and leaves it through
\* the larger root, the smaller one being behind its origin.
C16_Witness ==
    /\ Len(hits) = 1
    /\ scene_objects[1].kind = "Sphere"
    /\ scene_objects[1].radius = F(2)
    /\ FGt(delta(scene_objects[1], ray0), F(0))
    /\ ~in_window(quadratic_root(scene_objects[1], ray0, -1), 1)
    /\ hits[1] # None
    /\ hits[1][1].t = quadratic_root(scene_objects[1], ray0, 1)

\* The edges of the triangle tr from its first vertex.
e1(tr) == point_sub(tr.positions[2], tr.positions[1])

e2(tr) == point_sub(tr.positions[3], tr.positions[1])

\* a = e1 . (dir x e2), and the f = 1 / a that scales u, v and t.
det_a(tr, r) == dot(e1(tr), cross(r.d, e2(tr)))

\* The barycentric coordinates u and v of the point where the ray r meets
\* the plane of the triangle tr, and the ray's parameter t there.
bary_u(tr, r) ==
    FMul(FDiv(F(1), det_a(tr, r)),
         dot(point_sub(r.o, tr.positions[1]), cross(r.d, e2(tr))))

bary_v(tr, r) ==
    FMul(FDiv(F(1), det_a(tr, r)),
         dot(r.d, cross(point_sub(r.o, tr.positions[1]), e1(tr))))

plane_t(tr, r) ==
    FMul(FDiv(F(1), det_a(tr, r)),
         dot(e2(tr), cross(point_sub(r.o, tr.positions[1]), e1(tr))))

\* The ray r meets the triangle tr inside the window that ends at t_max.
accepts(tr, r, t_max) ==
    /\ FGe(det_a(tr, r), EPSILON) \/ FLe(det_a(tr, r), FNeg(EPSILON))
    /\ FGe(bary_u(tr, r), F(0)) /\ FLe(bary_u(tr, r), F(1))
    /\ FGe(bary_v(tr, r), F(0))
    /\ FLe(FAdd(bary_u(tr, r), bary_v(tr, r)), F(1))
    /\ FGt(plane_t(tr, r), EPSILON)
    /\ FGt(plane_t(tr, r), t_min0) /\ FLt(plane_t(tr, r), t_max)

\* The normal m turned against the ray r.
against(m, r) == IF FLt(dot(r.d, m), F(0)) THEN m ELSE neg(m)

\* C17: Triangle::hit accepts a ray iff |a| >= EPSILON for a = e1 . (dir x
\* e2), u is in [0, 1], v >= 0, u + v <= 1, t > EPSILON and t_min < t <
\* t_max; on acceptance the point is v0 + u e1 + v e2 and the normal is
\* normalize(e1 x e2) turned against the ray.
C17_TriangleAccepts ==
    \A i \in 1..Len(hits) :
        scene_objects[i].kind = "Triangle" =>
            /\ hits[i] # None <=> accepts(scene_objects[i], ray0, closest_so_far(i))
            /\ hits[i] # None =>
                  /\ hits[i][1].t = plane_t(scene_objects[i], ray0)
                  /\ hits[i][1].p =
                        point_add(scene_objects[i].positions[1],
                                  add(mul(e1(scene_objects[i]),
                                          bary_u(scene_objects[i], ray0)),
                                      mul(e2(scene_objects[i]),
                                          bary_v(scene_objects[i], ray0))))
                  /\ hits[i][1].n =
                        against(normalized(cross(e1(scene_objects[i]),
                                                 e2(scene_objects[i]))), ray0)
                  /\ ~FGt(dot(ray0.d, hits[i][1].n), F(0))

\* A ray accepted by the tilted triangle strictly inside it, off its
\* centre line, with the normal of the triangle's winding kept.
C17_Witness ==
    /\ Len(hits) = 1
    /\ scene_objects[1].kind = "Triangle"
    /\ hits[1] # None
    /\ bary_u(scene_objects[1], ray0) = Float(1, 3)
    /\ bary_v(scene_objects[1], ray0) = Float(5, 12)
    /\ hits[1][1].n = normalized(cross(e1(scene_objects[1]), e2(scene_objects[1])))

\* The objects already asked that accepted a hit.
accepted == {i \in 1..(idx - 1) : hits[i] # None}

\* The objects whose hit in the whole window is at the distance t.
at_distance(t) == {i \in hitting : window_hit(i)[1].t = t}

\* The first of a non-empty set of indices.
first(S) == CHOOSE i \in S : \A j \in S : i <= j

\* Of the objects of S, hit at the distance of the hit returned, the first
\* supplied that hit and the others were rejected.
first_wins(S) ==
    /\ S # {}
    /\ loop.hit_struct = hits[first(S)]
    /\ \A j \in S : j # first(S) => hits[j] = None

\* C28: when several primitives are hit at the same t, Scene::hit returns
\* the hit of the first of them in the sequence of objects: a later hit
\* replaces the current one only when its t is strictly smaller.  The t of
\* the current hit never exceeds the t of an earlier accepted hit.
C28_FirstOfTiesWins ==
    /\ \A i \in accepted :
          /\ loop.hit_struct # None
          /\ FLe(loop.hit_struct[1].t, hits[i][1].t)
          /\ \A j \in accepted : i < j => FLt(hits[j][1].t, hits[i][1].t)
    /\ (Scene_hit_returned /\ loop.hit_struct # None) =>
          first_wins(at_distance(loop.hit_struct[1].t))

\* Two primitives are hit at the same t, and the hit of the first is
\* returned.
C28_Witness ==
    /\ Scene_hit_returned
    /\ Len(scene_objects) = 2
    /\ scene_objects[2].kind = "Triangle"
    /\ loop.hit_struct # None
    /\ at_distance(loop.hit_struct[1].t) = {1, 2}
    /\ loop.hit_struct = hits[1]
    /\ hits[2] = None

(***************************************************************************)
(* Properties of ray_color and of the materials, under SpecColor.          *)
(***************************************************************************)
IsZeroRadiance(c) == c.r = F(0) /\ c.g = F(0) /\ c.b = F(0)

\* C1: ray_color with limit = 0 returns zero radiance, r = g = b = 0, for
\* every scene and every ray, the rays that miss every primitive included.
C1_NoBudgetNoRadiance ==
    (pc = "done" /\ limit0 = 0) => IsZeroRadiance(ret)

\* C4: the Null material always absorbs: its scatter returns no ray, and
\* ray_color does not recurse from a Null surface.
C4_NullAbsorbs ==
    (scat # None /\ scat[1].hit.material.kind = "Null") =>
        /\ scat[1].out.scattered = None
        /\ pc # "call"

\* C5: Lambertian::scatter always returns a ray, the attenuation is the
\* albedo and the origin of the ray is the hit point.
C5_LambertianScatters ==
    (scat # None /\ scat[1].hit.material.kind = "Lambertian") =>
        /\ scat[1].out.scattered # None
        /\ scat[1].out.attenuation = scat[1].hit.material.albedo
        /\ scat[1].out.scattered[1].o = scat[1].hit.p

\* A Lambertian surface scattered a ray drawn against its normal.
C5_Witness ==
    /\ scat # None
    /\ scat[1].hit.material.kind = "Lambertian"
    /\ scat[1].out.scattered # None
    /\ scat[1].out.scattered[1].d = V(0, 0, 0)

\* The mirror reflection d - 2 (d.n) n of the unit direction of the ray.
mirror(r, n) ==
    LET d == normalized(r.d)
    IN  sub(d, mul(n, FMul(F(2), dot(d, n))))

\* C6: Metal::scatter returns a ray iff the mirror reflection r of the
\* unit incoming direction has r.n > 0, and absorbs otherwise; the
\* attenuation is the albedo in both cases.
C6_MetalScattersIffAbove ==
    (scat # None /\ scat[1].hit.material.kind = "Metal") =>
        /\ scat[1].out.scattered # None <=>
              FGt(dot(mirror(scat[1].ray, scat[1].hit.n), scat[1].hit.n), F(0))
        /\ scat[1].out.attenuation = scat[1].hit.material.albedo

\* A Metal surface absorbed a ray.
C6_Witness ==
    /\ scat # None
    /\ scat[1].hit.material.kind = "Metal"
    /\ scat[1].out.scattered = None
    /\ scat[1].out.attenuation = scat[1].hit.material.albedo

\* eta_ratio: 1 / refraction_index on a front-face hit, refraction_index on
\* a back-face hit.
eta_ratio(h) ==
    IF h.front_face THEN FDiv(F(1), h.material.refraction_index)
    ELSE h.material.refraction_index

\* The unit normal on the side of the incoming ray.
facing_normal(h) ==
    IF h.front_face THEN normalized(h.n) ELSE neg(normalized(h.n))

\* cos(theta) between the reversed unit direction of the ray r and the unit
\* normal, clamped to [-1, 1], and the sin(theta) it gives.
cos_theta(r, h) ==
    FMax(FMin(dot(neg(normalized(r.d)), facing_normal(h)), F(1)), F(-1))

sin_theta(r, h) == FSqrt(FSub(F(1), FMul(cos_theta(r, h), cos_theta(r, h))))

\* The direction Dielectric::scatter is to give the ray r hitting at h when
\* the uniform draw is x: the reflection under total internal reflection or
\* when x is below schlick(cos(theta), eta_ratio), the refraction otherwise.
dielectric_direction(r, h, x) ==
    IF FGt(FMul(eta_ratio(h), sin_theta(r, h)), F(1))
    THEN reflect(normalized(r.d), facing_normal(h))
    ELSE IF x # None /\ FLt(x[1], schlick(cos_theta(r, h), eta_ratio(h)))
    THEN reflect(normalized(r.d), facing_normal(h))
    ELSE refract(normalized(r.d), facing_normal(h), eta_ratio(h)).v

\* C18: Dielectric::scatter always returns a scattered ray from the hit
\* point with attenuation (1, 1, 1); the ray is the reflection when
\* eta_ratio sin(theta) > 1, otherwise the reflection iff the uniform draw
\* is below schlick(cos(theta), eta_ratio) and the refraction otherwise.
C18_DielectricAlwaysScatters ==
    (scat # None /\ scat[1].hit.material.kind = "Dielectric") =>
        /\ scat[1].out.scattered # None
        /\ scat[1].out.attenuation = V(1, 1, 1)
        /\ scat[1].out.scattered[1].o = scat[1].hit.p
        /\ scat[1].out.scattered[1].d =
              dielectric_direction(scat[1].ray, scat[1].hit, scat[1].xi)

\* The call of ray_color on cur.ray has just returned ret, and its ray
\* missed every primitive.
missed ==
    /\ pc = "ret"
    /\ Len(frames) = limit0 - cur.limit
    /\ queried = <<None>>

\* t = 0.5 * (normalize(dir).y + 1)
background_t(r) == FMul(Half, FAdd(normalized(r.d).y, F(1)))

\* C14: when the ray misses every primitive, ray_color returns the studio
\* background at t = 0.5 * (normalize(dir).y + 1): r = g = b = t, black for a
\* ray pointing straight down and white for a ray pointing straight up.
C14_StudioBackground ==
    missed =>
        /\ ret.r = background_t(cur.ray)
        /\ ret.g = background_t(cur.ray)
        /\ ret.b = background_t(cur.ray)
        /\ (cur.ray.d = V(0, -1, 0)) => IsZeroRadiance(ret)
        /\ (cur.ray.d = V(0, 1, 0)) =>
              (ret.r = F(1) /\ ret.g = F(1) /\ ret.b = F(1))

\* A ray pointing up and forward missed and got a gray strictly between
\* black and white.
C14_Witness ==
    /\ missed
    /\ cur.ray.d = V(0, 3, -4)
    /\ ret.r = Float(4, 5) /\ ret.g = Float(4, 5) /\ ret.b = Float(4, 5)

\* The attenuations of the scatter events of the path so far, first to
\* last.
attenuations == IF scat = None THEN << >> ELSE scat[1].path

\* The color c carried back through the scatter events of a path: each
\* channel multiplied by the attenuations, the last event's first.
through(c, a) ==
    from_channels(FMul(c.r, a.x), FMul(c.g, a.y), FMul(c.b, a.z), F(1))

RECURSIVE carried(_, _)
carried(path, c) ==
    IF path = << >> THEN c
    ELSE through(carried(Tail(path), c), Head(path))

same_rgb(c1, c2) == c1.r = c2.r /\ c1.g = c2.g /\ c1.b = c2.b

\* C22: the RGB that ray_color returns is the componentwise product of the
\* attenuations of all scatter events along the path multiplied by the
\* background color of the first missing ray, and zero if the path ends by
\* absorption or by exhausting the budget on a hit.
C22_RecursiveIsIterative ==
    pc = "done" =>
        IF queried = <<None>>
        THEN same_rgb(ret, carried(attenuations, background(cur.ray)))
        ELSE IsZeroRadiance(ret)

\* A path of two scatter events that ends on the background with a color
\* that is not black.
C22_Witness ==
    /\ pc = "done"
    /\ Len(attenuations) = 2
    /\ queried = <<None>>
    /\ ~IsZeroRadiance(ret)

\* The scene queries made so far: one by each call, and the calls were made
\* with the budgets limit0, limit0 - 1, ..., down to that of the current one.
scene_queries == limit0 - cur.limit + (IF pc = "call" THEN 0 ELSE 1)

\* The scatter calls made so far: each one left its attenuation on the path.
scatter_calls == Len(attenuations)

\* The calls of ray_color that are active: the pending ones and the current
\* one.
recursion_depth == Len(frames) + 1

within_budget ==
    /\ cur.limit >= 0
    /\ scene_queries <= limit0 + 1
    /\ scatter_calls <= limit0
    /\ recursion_depth <= limit0 + 1
    /\ pc = "call" => /\ cur.limit = limit0 - Len(frames)
                      /\ scatter_calls = Len(frames)

budget_decreases ==
    /\ (pc = "call" /\ pc' = "call") =>
           /\ cur.limit >= 1
           /\ cur'.limit = cur.limit - 1
           /\ recursion_depth' = recursion_depth + 1
           /\ scatter_calls' = scatter_calls + 1
    /\ (pc = "call" /\ pc' # "call") =>
           /\ cur' = cur
           /\ frames' = frames
           /\ scatter_calls' <= scatter_calls + 1
    /\ pc # "call" =>
           /\ pc' # "call"
           /\ cur' = cur
           /\ scatter_calls' = scatter_calls
           /\ recursion_depth' <= recursion_depth

\* C23: ray_color(scene, ray, L) always comes to an end (it returns, or a
\* scatter panics); it makes at most L + 1 scene queries and at most L
\* scatter calls, its recursion is at most L + 1 deep, and every recursive
\* call has a budget one less than that of its caller.
C23_RayColorTerminates ==
    /\ []within_budget
    /\ [][budget_decreases]_vars
    /\ <>(pc = "done" \/ pc = "panic")

\* A path that uses all of its budget: two scatter events, and a third hit
\* found with a budget of zero.
C23_Witness ==
    /\ pc = "done"
    /\ limit0 = 2 /\ cur.limit = 0
    /\ scene_queries = 3 /\ scatter_calls = 2
    /\ queried # <<None>>

\* The hit record h of the ray r is one HitStruct::new builds: its normal is
\* the outward normal or its opposite, as front_face says, and front_face
\* is the sign of the dot product of the direction with the outward normal.
built_by_new(r, h) ==
    \E outward_normal \in {h.n, neg(h.n)} :
        h = HitStruct_new(h.t, h.p, r, outward_normal, h.material)

\* The reflectance Dielectric::scatter compares with its draw, when it makes
\* the comparison.
compares_reflectance(r, h) ==
    /\ ~FGt(FMul(eta_ratio(h), sin_theta(r, h)), F(1))
    /\ ~schlick_panics(cos_theta(r, h), eta_ratio(h))

\* C25: in Dielectric::scatter, for a hit record built by HitStruct::new, on
\* the front face or on the back face, cos(theta) = dot(-d, n) is >= 0 and
\* the reflectance of schlick compared with the draw is in [0, 1].
C25_NormalTowardIncoming ==
    (/\ scat # None
     /\ scat[1].hit.material.kind = "Dielectric"
     /\ built_by_new(scat[1].ray, scat[1].hit)) =>
        /\ FGe(cos_theta(scat[1].ray, scat[1].hit), F(0))
        /\ compares_reflectance(scat[1].ray, scat[1].hit) =>
              /\ FGe(schlick(cos_theta(scat[1].ray, scat[1].hit),
                             eta_ratio(scat[1].hit)), F(0))
              /\ FLe(schlick(cos_theta(scat[1].ray, scat[1].hit),
                             eta_ratio(scat[1].hit)), F(1))

(***************************************************************************)
(* Properties of render, under SpecRender.                                 *)
(***************************************************************************)
\* C7: whatever the interleaving of the row and pixel tasks, render
\* returns exactly nx * ny colors in row-major top-to-bottom order: the
\* entry at index r * nx + i, counted from 0, is the color the task of
\* pixel (i, ny - 1 - r) computed, every task having run exactly once.
C7_RowMajorTopToBottom ==
    pixels # None =>
        /\ Len(pixels[1]) = options.nx * options.ny
        /\ \A p \in Pixels(options) : task[p] # None
        /\ \A r \in 0..(options.ny - 1), i \in 0..(options.nx - 1) :
              pixels[1][r * options.nx + i + 1] =
                  task[<<i, options.ny - 1 - r>>][1]

\* render returned an image of 3 by 2 pixels whose two rows differ, the
\* row of j = 1 first.
C7_Witness ==
    /\ pixels # None
    /\ options.nx = 3 /\ options.ny = 2
    /\ task[<<0, 0>>] # task[<<0, 1>>]
    /\ task[<<2, 0>>] # task[<<1, 1>>]
    /\ pixels[1][1] = task[<<0, 1>>][1]
    /\ pixels[1][6] = task[<<2, 0>>][1]

(***************************************************************************)
(* Properties of the closure of one pixel, under SpecPixel.                *)
(***************************************************************************)
\* The accumulator before the k-th pass of the loop.
accumulated_before(k) ==
    IF k = 1 THEN LinearColor_default ELSE samples[k - 1].color

\* The k-th pass drew xi_u and xi_v in [0, 1), traced the primary ray at
\* u = (i + xi_u) / nx, v = (j + xi_v) / ny with the budget n_max_bounce, and
\* added the color of that ray to the accumulator.
pass_is_sample(k) ==
    /\ FGe(samples[k].xi_u, F(0)) /\ FLt(samples[k].xi_u, F(1))
    /\ FGe(samples[k].xi_v, F(0)) /\ FLt(samples[k].xi_v, F(1))
    /\ samples[k].u =
           FDiv(FAdd(F(pixel.i), samples[k].xi_u), F(options.nx))
    /\ samples[k].v =
           FDiv(FAdd(F(pixel.j), samples[k].xi_v), F(options.ny))
    /\ samples[k].c =
           ray_color(scene_objects, get_ray(cam, samples[k].u, samples[k].v),
                     options.n_max_bounce, samples[k].at, pixel.ff).color
    /\ samples[k].color.r = FAdd(accumulated_before(k).r, samples[k].c.r)
    /\ samples[k].color.g = FAdd(accumulated_before(k).g, samples[k].c.g)
    /\ samples[k].color.b = FAdd(accumulated_before(k).b, samples[k].c.b)

\* C8: the closure of a pixel (i, j) starts from a zero accumulator, adds
\* exactly ns integrator results, each for a primary ray at
\* u = (i + xi_u) / nx, v = (j + xi_v) / ny with xi in [0, 1) and the bounce
\* budget n_max_bounce, and returns the accumulated r, g, b divided by ns,
\* the division being the product by 1.0 / ns.
C8_SamplerAccumulates ==
    /\ Len(samples) = pass
    /\ pass <= options.ns
    /\ IsZeroRadiance(accumulated_before(1))
    /\ local.color = accumulated_before(pass + 1)
    /\ \A k \in 1..Len(samples) : pass_is_sample(k)
    /\ out # None =>
          /\ pass = options.ns
          /\ out[1].r = FMul(local.color.r, FDiv(F(1), F(options.ns)))
          /\ out[1].g = FMul(local.color.g, FDiv(F(1), F(options.ns)))
          /\ out[1].b = FMul(local.color.b, FDiv(F(1), F(options.ns)))

\* A pixel returned after two passes that added different, nonzero colors.
C8_Witness ==
    /\ out # None
    /\ options.ns = 2
    /\ Len(samples) = 2
    /\ ~IsZeroRadiance(samples[1].c)
    /\ samples[1].c # samples[2].c
    /\ samples[1].xi_u # samples[2].xi_u
    /\ out[1] # local.color

\* C11: the pixel buffer of render is a function of the options, the scene,
\* the camera and a seed given to render, so that two runs with the same
\* four produce the same colors.  render takes no seed: the color of a
\* pixel is then the one every run computes from the options, the scene and
\* the camera, whatever the generator of the thread.
C11_SeededDeterminism ==
    out # None =>
        \A seed \in Seeds :
            out[1] = render_pixel(options, cam, scene_objects, pixel.i, pixel.j,
                                  seed, pixel.ff)

\* C12: every color render returns has alpha exactly 1.0, whatever mix of
\* hits and misses its samples produced.
C12_AlphaOne == out # None => out[1].a = F(1)

\* A pixel returned after one sample that missed, of alpha 0, and one that
\* hit, of alpha 1.
C12_Witness ==
    /\ out # None
    /\ out[1].a = F(1)
    /\ \E k \in 1..Len(samples) : samples[k].c.a = F(0)
    /\ \E k \in 1..Len(samples) : samples[k].c.a = F(1)

\* C13: a pixel all of whose sample rays miss every primitive is returned
\* by render with alpha 0, and a pixel whose samples all hit with alpha 1.
C13_AlphaOfCoverage ==
    (out # None /\ options.ns > 0) =>
        /\ (\A k \in 1..Len(samples) : samples[k].c.a = F(0)) => out[1].a = F(0)
        /\ (\A k \in 1..Len(samples) : samples[k].c.a = F(1)) => out[1].a = F(1)

(***************************************************************************)
(* Properties of RenderOptions::from_args, under SpecArgs.                 *)
(***************************************************************************)
\* The field read from the positional argument k: its value when the
\* argument is there and parses as an unsigned integer, default otherwise.
positional(k, default) ==
    IF k < Len(args) /\ usize_from_str(args[k + 1]) # None
    THEN usize_from_str(args[k + 1])[1]
    ELSE default

\* C9: from_args reads the positional arguments 1, 2 and 3 as ns, nx and
\* ny; a field whose argument is missing or does not parse as an unsigned
\* integer is its default, ns = 8, nx = 640, ny = 360, whatever the other
\* arguments are, and n_max_bounce is always 50.
C9_PositionalWithDefaults ==
    parsed # None =>
        /\ parsed[1].ns = positional(1, 8)
        /\ parsed[1].nx = positional(2, 640)
        /\ parsed[1].ny = positional(3, 360)
        /\ parsed[1].n_max_bounce = 50

\* Of three arguments the first and the last do not parse and the second
\* does: ns and ny are their defaults and nx is the argument.
C9_Witness ==
    /\ parsed # None
    /\ Len(args) = 4
    /\ args[2] = <<"1", "x">>
    /\ args[3] = <<"1", "2">>
    /\ args[4] = <<"-", "1">>
    /\ parsed[1] = [ns |-> 8, nx |-> 12, ny |-> 360, n_max_bounce |-> 50]

\* C29: every RenderOptions from_args returns has ns >= 1, nx >= 1 and
\* ny >= 1, whatever the arguments.
C29_PositiveOptions ==
    parsed # None =>
        /\ parsed[1].ns >= 1
        /\ parsed[1].nx >= 1
        /\ parsed[1].ny >= 1

(***************************************************************************)
(* Properties of write_image, under SpecWrite.                             *)
(***************************************************************************)
\* C10: an I/O failure while writing the PNG, in the creation of the file,
\* the writing of the header or the writing of the image data, does not
\* abort the program: write_image returns it to its caller as an Err.
C10_FailureSurfaced ==
    wfailed # {} =>
        /\ wpc # "panic"
        /\ wpc = "done" => wresult = Some("Err")

(***************************************************************************)
(* Properties of the functions of the library, under SpecLib.              *)
(***************************************************************************)
\* The channel k of a color, in the order r, g, b, a.
channel(c, k) == <<c.r, c.g, c.b, c.a>>[k]

\* The color c with x for its channel k.
with_channel(c, k, x) ==
    from_channels(IF k = 1 THEN x ELSE c.r, IF k = 2 THEN x ELSE c.g,
                  IF k = 3 THEN x ELSE c.b, IF k = 4 THEN x ELSE c.a)

\* C15: LinearColor::to_rgba is non-decreasing in each input channel, maps
\* linear 0 to byte 0 and linear 1 to byte 255, saturates every channel
\* value >= 1 to 255, and encodes alpha linearly, as a * 255 without gamma.
C15_ToRgbaMonotoneSaturating ==
    (call.fn = "to_rgba" /\ returned # << >>) =>
        /\ \A k \in 1..4 : \A x \in Channels :
              FLe(channel(call.self, k), x) =>
                  returned[1][k] <= to_rgba(with_channel(call.self, k, x))[k]
        /\ \A k \in 1..4 :
              /\ channel(call.self, k) = F(0) => returned[1][k] = 0
              /\ channel(call.self, k) = F(1) => returned[1][k] = 255
              /\ FGe(channel(call.self, k), F(1)) => returned[1][k] = 255
        /\ (FGe(call.self.a, F(0)) /\ FLe(call.self.a, F(1))) =>
              returned[1][4] = (call.self.a.n * 255) \div call.self.a.d

\* A color with r = b = 2 and g = a = 1/2: r and b saturate, g is encoded
\* above its linear value and a at it.
C15_Witness ==
    /\ call.fn = "to_rgba"
    /\ call.self = from_channels(F(2), Half, F(2), Half)
    /\ returned # << >>
    /\ returned[1][1] = 255 /\ returned[1][3] = 255
    /\ returned[1][2] > 127
    /\ returned[1][4] = 127

\* C20: the cross product is right-handed and anti-commutative: for the
\* unit basis x, y, z, cross(x, y) = z, cross(y, z) = x and cross(z, x) = y;
\* for all u and v, cross(u, v) = -cross(v, u); and camera::cross returns
\* what Vec3::cross returns for every pair of vectors.
C20_CrossRightHanded ==
    (call.fn = "cross" /\ returned # << >>) =>
        /\ (call.u = V(1, 0, 0) /\ call.v = V(0, 1, 0)) => returned[1] = V(0, 0, 1)
        /\ (call.u = V(0, 1, 0) /\ call.v = V(0, 0, 1)) => returned[1] = V(1, 0, 0)
        /\ (call.u = V(0, 0, 1) /\ call.v = V(1, 0, 0)) => returned[1] = V(0, 1, 0)
        /\ returned[1] = neg(returned[2])
        /\ returned[3] = returned[1]

\* cross(y, z) returned x, cross(z, y) returned -x, and camera::cross x.
C20_Witness ==
    /\ call.fn = "cross"
    /\ call.u = V(0, 1, 0) /\ call.v = V(0, 0, 1)
    /\ returned = <<V(1, 0, 0), V(-1, 0, 0), V(1, 0, 0)>>

\* sin from cos, as the test of refract computes it.
pyth(x) == FSqrt(FSub(F(1), FMul(x, x)))

\* eta sin(theta) = eta_prime sin(theta_prime), to the test's EPSILON.
snells_law(eta, cosine, eta_prime, cosine_prime) ==
    /\ FLt(FSub(FMul(eta, pyth(cosine)), FMul(eta_prime, pyth(cosine_prime))),
           EPSILON)
    /\ FGt(FSub(FMul(eta, pyth(cosine)), FMul(eta_prime, pyth(cosine_prime))),
           FNeg(EPSILON))

TOLERANCE == [n |-> 1, d |-> 100000]

\* x and y differ by less than 1e-5.
near(x, y) == FLt(FSub(x, y), TOLERANCE) /\ FGt(FSub(x, y), FNeg(TOLERANCE))

\* The direction uv meets the interface against its normal n and below the
\* critical angle of eta / eta_prime: it crosses the interface.
crossing(c) ==
    /\ FLt(dot(c.uv, c.n), F(0))
    /\ FLe(FMul(FDiv(c.eta, c.eta_prime),
                pyth(FMin(FNeg(dot(c.uv, c.n)), F(1)))), F(1))

\* C19: refraction round-trips: for a unit direction u crossing a flat
\* interface with normal n, refract(refract(u, n, eta / eta_prime), n,
\* eta_prime / eta) equals u within 1e-5, and each of the two refractions
\* satisfies Snell's law eta sin(theta) = eta_prime sin(theta_prime).
C19_RefractRoundTrip ==
    (call.fn = "refract" /\ returned # << >> /\ crossing(call)) =>
        /\ Len(returned) = 2
        /\ ~returned[1].panic /\ ~returned[2].panic
        /\ near(returned[2].v.x, call.uv.x)
        /\ near(returned[2].v.y, call.uv.y)
        /\ near(returned[2].v.z, call.uv.z)
        /\ snells_law(call.eta, FNeg(dot(call.uv, call.n)),
                      call.eta_prime, FNeg(dot(returned[1].v, call.n)))
        /\ snells_law(call.eta_prime, FNeg(dot(returned[1].v, call.n)),
                      call.eta, FNeg(dot(returned[2].v, call.n)))

\* The view basis of a camera spec: w from look_at to look_from, u to the
\* right and v up.
basis_w(spec) == normalized(point_sub(spec.look_from, spec.look_at))

basis_u(spec) == normalized(cross(spec.up, basis_w(spec)))

basis_v(spec) == cross(basis_w(spec), basis_u(spec))

\* The half height and the half width of the viewport of a camera spec.
half_h(spec) == tan(FDiv(degrees_to_radians(spec.vfov), F(2)))

half_w(spec) == FMul(spec.aspect, half_h(spec))

\* (2s - 1) half_w u + (2t - 1) half_h v - w
viewport_direction(spec, s, t) ==
    sub(add(mul(basis_u(spec), FMul(FSub(FMul(F(2), s), F(1)), half_w(spec))),
            mul(basis_v(spec), FMul(FSub(FMul(F(2), t), F(1)), half_h(spec)))),
        basis_w(spec))

\* The vector d points straight from the point a toward the point b.
toward(d, a, b) ==
    /\ cross(d, point_sub(b, a)) = V(0, 0, 0)
    /\ FGt(dot(d, point_sub(b, a)), F(0))

C26_SchlickReciprocal ==
    (call.fn = "schlick" /\ returned # << >>) =>
        /\ ~schlick_panics(call.cosine, call.refraction_index)
        /\ returned[1] = returned[2]

\* schlick(1/2, 3/2) = schlick(1/2, 2/3) = 0.04 + 0.96 / 32 = 0.07
C26_Witness ==
    /\ call.fn = "schlick"
    /\ call.cosine = Half /\ call.refraction_index = Float(3, 2)
    /\ returned = <<Float(7, 100), Float(7, 100)>>

\* C27: whenever Metal::scatter returns a ray, the direction of that ray
\* has a positive dot product with hit.n, whatever the roughness and the
\* perturbation.
C27_MetalScattersOutward ==
    (/\ call.fn = "Metal_scatter"
     /\ returned # << >>
     /\ returned[1].scattered # None) =>
        FGt(dot(returned[1].scattered[1].d, call.hit.n), F(0))

(***************************************************************************)
(* Properties of random_in_unit_sphere, under SpecSphereFair.              *)
(***************************************************************************)
in_cube(v) ==
    /\ FGe(v.x, F(-1)) /\ FLt(v.x, F(1))
    /\ FGe(v.y, F(-1)) /\ FLt(v.y, F(1))
    /\ FGe(v.z, F(-1)) /\ FLt(v.z, F(1))

in_ball(v) ==
    FLe(FAdd(FAdd(FMul(v.x, v.x), FMul(v.y, v.y)), FMul(v.z, v.z)), F(1))

returns_accepted ==
    /\ call.v # None => in_cube(call.v[1])
    /\ returned # << >> =>
           /\ call.v = Some(returned[1])
           /\ in_cube(returned[1])
           /\ in_ball(returned[1])
    /\ (call.v # None /\ ~in_ball(call.v[1])) => returned = << >>

\* C24: random_in_unit_sphere returns only a candidate its test accepted:
\* each component is in [-1, 1) and the squared length is at most 1; a
\* rejected candidate is never returned; and under a fair random source the
\* loop comes to an end.
C24_RejectionLoop ==
    /\ []returns_accepted
    /\ <>(returned # << >>)

\* The loop returns on its third pass, after two rejected candidates.
C24_Witness ==
    /\ call.fn = "random_in_unit_sphere"
    /\ call.passes = 3
    /\ returned = <<vec3(Float(-1, 2), Half, Half)>>

=============================================================================
